---- MODULE Spec2Model ----
(***************************************************************************)
(* A model of wefy's extension manager (src/src/extension/manager.ts):     *)
(* the registry of extensions, the initialized flag, and executeHook /     *)
(* initialize as asynchronous activations that suspend at every await.     *)
(*                                                                         *)
(* An activation (a "call") is one invocation of initialize or executeHook *)
(* by a caller.  Its local variables (hookName, errors, abortController,   *)
(* sortedExtensions, the loop position) live in call[c]; aborted[c] is     *)
(* abortController.signal.aborted of the controller that call created.     *)
(* Handlers are the environment: a handler invoked by the loop throws      *)
(* synchronously, returns, or returns a pending promise that the           *)
(* environment later resolves or rejects.                                  *)
(***************************************************************************)
EXTENDS Integers, Sequences, FiniteSets, TLC

\* ------------------------------------------------------------------ bounds

\* Extensions registered on the manager.
MaxExt == 3

\* Activations of initialize / executeHook issued on one manager.
MaxCalls == 2

\* Explicit priorities run over -MaxPriority..MaxPriority.
MaxPriority == 1

Calls == 1..MaxCalls

ExtNames == <<"A", "B", "C", "D", "E">>

\* Hook names: "beforeRequest" stands for every hook that is neither init nor
\* onError (executeHook treats them alike).
HookNames == {"init", "beforeRequest", "onError"}

\* priority?: number is modelled as a set, {} when the field is missing.
PriorityValues == {{}} \cup {{p} : p \in (-MaxPriority)..MaxPriority}

\* The hook declarations drawn for an extension of the ordering specification.
HookSets == {{}, {"init", "beforeRequest"}, {"init", "beforeRequest", "onError"}}

\* What a handler does when it is invoked.
HandlerOutcomes == {"returns", "throws", "suspends"}

\* Messages of the errors thrown by handlers and by the race's abort promise.
HookErrorMessage == "hook failed"
OnErrorErrorMessage == "onError failed"
AbortedMessage == "Hook execution aborted"

VARIABLES
  extensions,   \* this.extensions: the registered extensions, in insertion order
  initialized,  \* this.initialized
  call,         \* the activations of initialize / executeHook
  aborted       \* abortController.signal.aborted, per activation

VARIABLES
  heap,         \* the state snapshots (immer's frozen objects), by reference
  state,        \* `let state` of each context: extension name -> reference
  sharedState,  \* this.sharedState: the Map of the manager
  written,      \* per key, the last setSharedState since the last clear
  held,         \* the references callers have read from extensionState
  lastOp,       \* what the last operation on a context or on the manager did
  reg,          \* the activation of the constructor / registerExtensions
  extended,     \* the manager returned by extend
  getter        \* the activation of a read of context.sharedState

storeVars == <<heap, state, sharedState, written, held, lastOp>>

regVars == <<reg, extended, getter>>

VARIABLES
  impl,         \* which of the repository's Wefy classes the client is
  config,       \* this.config of the client
  req,          \* the activations of the client's request method, per call
  cache,        \* this.cache of the client: url -> Response
  merged        \* the activation of mergeHeaders: its arguments and its result

clientVars == <<impl, config, req, cache, merged>>

vars == <<extensions, initialized, call, aborted, storeVars, regVars, clientVars>>

\* An activation of the client's request method that has not been called:
\* its arguments, the timer of setTimeout, the AbortController, the request
\* handed to fetch, the Response fetch resolved with, the phases executed in
\* order, and how the returned promise settled.
IdleRequest ==
  [pc |-> "idle", method |-> "", url |-> "", given |-> {}, timeoutMs |-> {},
   timer |-> "none",
   elapsed |-> FALSE, pendingAtElapse |-> FALSE, signalAborted |-> FALSE,
   request |-> {}, response |-> {}, log |-> <<>>, result |-> "none", value |-> {}]

\* mergeHeaders has not been called.
NotMerged == [pc |-> "idle", baseHeaders |-> <<>>, requestHeaders |-> <<>>, result |-> <<>>]

\* No client has been created.
NoClient ==
  /\ impl = "none"
  /\ config = [headers |-> <<>>, timeout |-> {}]
  /\ req = [c \in Calls |-> IdleRequest]
  /\ cache = [u \in {} |-> 0]
  /\ merged = NotMerged

\* ------------------------------------------------------------ pure helpers

\* (ext.priority || 0)
PriorityOr0(ext) ==
  IF ext.priority = {} THEN 0 ELSE CHOOSE p \in ext.priority : TRUE

CompareAscending(extA, extB) == PriorityOr0(extA) - PriorityOr0(extB)

\* The comparator of the sort: (extB.priority || 0) - (extA.priority || 0)
Compare(extA, extB) == PriorityOr0(extB) - PriorityOr0(extA)

\* Array.prototype.sort is stable: an element is placed after every element
\* that the comparator does not order after it.
InsertSorted(exts, sorted, k) ==
  LET before == SelectSeq(sorted, LAMBDA j : Compare(exts[j], exts[k]) <= 0)
      after  == SelectSeq(sorted, LAMBDA j : Compare(exts[j], exts[k]) > 0)
  IN before \o <<k>> \o after

RECURSIVE SortPrefix(_, _)
SortPrefix(exts, n) ==
  IF n = 0 THEN <<>> ELSE InsertSorted(exts, SortPrefix(exts, n - 1), n)

\* Array.from(this.extensions.entries()).sort(...): positions in `extensions`
SortedExtensions(exts) == SortPrefix(exts, Len(exts))

\* this.contexts.get(name): the context registerExtensions created for the
\* extension of that name, identified by its owner.
ContextOf(name) == [owner |-> name]

\* const hook = ext.hooks?.[hookName]; if (hook && typeof hook === "function")
DeclaresHook(ext, hookName) == hookName \in ext.hooks

\* The first position >= from of `sorted` whose extension declares hookName,
\* 0 when there is none: the iterations in between do nothing.
NextDeclaring(exts, sorted, from, hookName) ==
  LET S == {j \in from..Len(sorted) : DeclaresHook(exts[sorted[j]], hookName)}
  IN IF S = {} THEN 0 ELSE CHOOSE j \in S : \A k \in S : j <= k

\* ------------------------------------------------------------------ state

\* The local variables of the handlers of an activation, by extension name:
\* none yet.
EmptyLocals == [n \in {} |-> 0]

IdleCall ==
  [op |-> "idle", hookName |-> "none", pc |-> "idle",
   sortedExtensions |-> <<>>, idx |-> 0, errors |-> <<>>,
   race |-> "none",
   hookResult |-> "none", result |-> "none", failure |-> "none",
   initializedAtCall |-> FALSE,
   started |-> <<>>, startedCtx |-> <<>>, failed |-> <<>>, onErrorCalls |-> <<>>,
   onErrorFailed |-> <<>>, pending |-> {},
   locals |-> EmptyLocals, wrote |-> {}]

\* An extension that declares no hook is never looked at beyond the lookup of
\* its hook: it is drawn not critical.
NoHookExtension(i, prio) ==
  [name |-> ExtNames[i], priority |-> prio, critical |-> FALSE, hooks |-> {}]

\* Extensions of the ordering specification, never critical: without hook,
\* with beforeRequest and any priority, or with beforeRequest and onError and
\* no priority.
OrderDescriptors(i) ==
  {NoHookExtension(i, {}),
   [name |-> ExtNames[i], priority |-> {}, critical |-> FALSE,
    hooks |-> {"beforeRequest", "onError"}]} \cup
  [name : {ExtNames[i]}, priority : PriorityValues, critical : {FALSE},
   hooks : {{"beforeRequest"}}]

\* Extensions of the failure specification: critical or not, with or without
\* onError; the extensions at even positions have priority 1 and the others
\* none, so that the execution order differs from the registration order.
FailureDescriptors(i) ==
  LET prio == IF i % 2 = 0 THEN {1} ELSE {}
  IN {NoHookExtension(i, prio)} \cup
     [name : {ExtNames[i]}, priority : {prio}, critical : BOOLEAN,
      hooks : HookSets \ {{}}]

\* Registries of exactly MaxExt extensions, the i-th drawn from D[i].
Registries(D) ==
  {r \in [1..MaxExt -> UNION {D[i] : i \in 1..MaxExt}] :
     \A i \in 1..MaxExt : r[i] \in D[i]}

\* The registry of the concurrency specification: B (critical, priority 1)
\* runs before A (no priority, not critical); both declare every hook.
FixedRegistry ==
  << [name |-> "A", priority |-> {}, critical |-> FALSE, hooks |-> HookNames],
     [name |-> "B", priority |-> {1}, critical |-> TRUE, hooks |-> HookNames] >>

\* ------------------------------------------------------- the state store

\* The content of a state object: a set of <<key, value>> pairs; {} is {}.
EmptyState == {}

\* ext.initialState || {}
InitialStateOf(ext) ==
  IF "initialState" \in DOMAIN ext THEN ext.initialState ELSE EmptyState

\* An empty Map.
EmptyMap == [k \in {} |-> 0]

\* No activation of the constructor, of extend or of the sharedState getter.
IdleReg ==
  [pc |-> "idle", input |-> <<>>, i |-> 0, names |-> {}, error |-> "none",
   extensionName |-> "none"]

NotExtended == [status |-> "none"]

IdleGetter == [pc |-> "idle", depth |-> 0, result |-> "none"]

NoOp == [op |-> "none"]

\* The manager as the constructor leaves it for the registry exts: one context
\* per extension, its state the frozen initialState, an empty shared Map.
Constructed(exts) ==
  /\ heap = [i \in 1..Len(exts) |-> InitialStateOf(exts[i])]
  /\ state = [n \in {exts[i].name : i \in 1..Len(exts)} |->
                CHOOSE i \in 1..Len(exts) : exts[i].name = n]
  /\ sharedState = EmptyMap
  /\ written = EmptyMap
  /\ held = {}
  /\ lastOp = NoOp
  /\ reg = IdleReg
  /\ extended = NotExtended
  /\ getter = IdleGetter

\* ------------------------------------------------ the code's decision points

NeverAlreadyInitialized == FALSE

\* initialize: if (this.initialized) throw ...
AlreadyInitialized == initialized

NoInitializedCheck(hookName) == FALSE

\* executeHook: if (!this.initialized && hookName !== "init") throw ...
MustBeInitialized(hookName) == ~initialized /\ hookName # "init"

RaceNotAwaited(rec) == TRUE

\* await Promise.race([hook(...), abortPromise]): the activation continues only
\* when the handler's promise or the abort promise has settled.
RaceSettled(rec) == rec.race # "pending"

\* await ext.hooks.onError(...)
OnErrorSettled(rec) == rec.race # "pending"

PushErrorReplacing(errors, name, message) ==
  <<[name |-> name, message |-> message]>>

\* errors.push({ name, error })
PushError(errors, name, message) ==
  Append(errors, [name |-> name, message |-> message])

OnErrorFailureRecorded(errors, name) ==
  Append(errors, [name |-> name, message |-> OnErrorErrorMessage])

\* catch (errorHandlingError) { console.error(...) }: logged, nothing recorded
OnErrorFailureErrors(errors, name) == errors

NeverAbort(ext) == FALSE

AlwaysAbort(ext) == TRUE

\* if (ext.critical) abortController.abort()
ShouldAbort(ext) == ext.critical

AbortEveryCall(ab, c) == [d \in DOMAIN ab |-> TRUE]

\* abortController.abort() on the controller created by activation c
Abort(ab, c) == [ab EXCEPT ![c] = TRUE]

\* const abortController = new AbortController()
NewAbortController(ab, c) == [ab EXCEPT ![c] = FALSE]

\* An executeHook that reports no error whatever its handlers did.
NoHookFails(errors) == FALSE

\* if (errors.length > 0) throw ...
HookFails(errors) == Len(errors) > 0

\* The message of the aggregate error: the `name: message` items, in order.
AggregateMessage(errors) ==
  [i \in 1..Len(errors) |-> <<errors[i].name, errors[i].message>>]

\* ----------------------------------------------------- steps of an activation

\* executeHook up to the loop: the guard, then errors, the sort.
EnterExecuteHook(rec, hookName) ==
  IF MustBeInitialized(hookName)
  THEN [rec EXCEPT !.hookName = hookName, !.pc = "done",
                   !.result = "rejected", !.failure = "notInitialized"]
  ELSE [rec EXCEPT !.hookName = hookName, !.pc = "loop", !.errors = <<>>,
                   !.sortedExtensions = SortedExtensions(extensions), !.idx = 1]

\* After the loop: the aggregate error, or a normal return (to the caller, or
\* to initialize, which awaits executeHook).
Finish(rec) ==
  LET r == IF HookFails(rec.errors) THEN "rejected" ELSE "resolved"
  IN IF rec.op = "initialize"
     THEN [rec EXCEPT !.pc = "initReturn", !.hookResult = r, !.race = "none"]
     ELSE [rec EXCEPT !.pc = "done", !.hookResult = r, !.result = r, !.race = "none",
                      !.failure = IF r = "rejected" THEN "hookErrors" ELSE "none"]

\* A catch block after which the loop visits the same extension again.
AfterCatchRetry(rec) == [rec EXCEPT !.pc = "loop", !.race = "none"]

\* The end of the catch block: the next iteration.
AfterCatch(rec) ==
  [rec EXCEPT !.idx = rec.idx + 1, !.pc = "loop", !.race = "none"]

\* The catch block of the loop for extension `ext`, whose handler (or race)
\* failed with `message`; `o` is what ext's onError does if it is declared.
Catch(rec, ext, message, o) ==
  LET r1 == [rec EXCEPT !.errors = PushError(rec.errors, ext.name, message)]
  IN IF DeclaresHook(ext, "onError")
     THEN LET r2 == [r1 EXCEPT !.onErrorCalls = Append(r1.onErrorCalls,
                      [name |-> ext.name, error |-> message, ctx |-> ContextOf(ext.name)])]
          IN CASE o = "throws" ->
                    AfterCatch([r2 EXCEPT
                       !.onErrorFailed = Append(r2.onErrorFailed, ext.name),
                       !.errors = OnErrorFailureErrors(r2.errors, ext.name)])
               [] o = "returns" ->
                    [r2 EXCEPT !.pc = "awaitOnError", !.race = "resolved"]
               [] OTHER ->
                    [r2 EXCEPT !.pc = "awaitOnError", !.race = "pending",
                               !.pending = r2.pending \cup {<<ext.name, "onError">>}]
     ELSE AfterCatch(r1)

\* Whether the catch block reaches `if (ext.critical) abort()` without
\* suspending at the await of onError.
CatchCompletes(ext, o) == ~DeclaresHook(ext, "onError") \/ o = "throws"

\* The abort promise of a race rejects when its controller aborts while the
\* race is still undecided.
RejectRaces(cl, ab, newAb) ==
  [d \in Calls |->
     IF newAb[d] /\ ~ab[d] /\ cl[d].pc = "awaitHook" /\ cl[d].race = "pending"
     THEN [cl[d] EXCEPT !.race = "aborted"]
     ELSE cl[d]]

\* The current extension of the loop of activation record rec.
CurrentExt(rec) == extensions[rec.sortedExtensions[rec.idx]]

\* ----------------------------------------------------------------- actions

\* A caller invokes executeHook(hookName, ...).
ExecuteHookCall(c, hookName) ==
  /\ call[c].pc = "idle"
  /\ call' = [call EXCEPT ![c] =
        EnterExecuteHook([call[c] EXCEPT !.op = "executeHook",
                             !.initializedAtCall = initialized], hookName)]
  /\ aborted' = NewAbortController(aborted, c)
  /\ UNCHANGED <<clientVars, extensions, initialized, storeVars, regVars>>

\* A caller invokes initialize(config).
InitializeCall(c) ==
  /\ call[c].pc = "idle"
  /\ LET rec == [call[c] EXCEPT !.op = "initialize",
                                !.initializedAtCall = initialized]
     IN IF AlreadyInitialized
        THEN /\ call' = [call EXCEPT ![c] =
                   [rec EXCEPT !.pc = "done", !.result = "rejected",
                               !.failure = "alreadyInitialized"]]
             /\ UNCHANGED aborted
        ELSE /\ call' = [call EXCEPT ![c] = EnterExecuteHook(rec, "init")]
             /\ aborted' = NewAbortController(aborted, c)
  /\ UNCHANGED <<clientVars, extensions, initialized, storeVars, regVars>>

\* One pass of the for loop up to its next await: the aborted check, the
\* extensions without the hook skipped, the handler of the next one invoked.
LoopStep(c, o, o2) ==
  /\ call[c].pc = "loop"
  /\ LET rec == call[c]
         j == NextDeclaring(extensions, rec.sortedExtensions, rec.idx, rec.hookName)
     IN IF aborted[c] \/ j = 0
        THEN /\ call' = [call EXCEPT ![c] = Finish(rec)]
             /\ UNCHANGED aborted
        ELSE LET ext == extensions[rec.sortedExtensions[j]]
                 r1 == [rec EXCEPT !.idx = j, !.started = Append(rec.started, ext.name),
                          !.startedCtx = Append(rec.startedCtx, ContextOf(ext.name))]
             IN CASE o = "throws" ->
                       LET newAb == IF CatchCompletes(ext, o2) /\ ShouldAbort(ext)
                                    THEN Abort(aborted, c) ELSE aborted
                           r2 == Catch([r1 EXCEPT !.failed = Append(r1.failed, ext.name)],
                                       ext, HookErrorMessage, o2)
                       IN /\ call' = RejectRaces([call EXCEPT ![c] = r2], aborted, newAb)
                          /\ aborted' = newAb
                  [] o = "returns" ->
                       /\ call' = [call EXCEPT ![c] =
                             [r1 EXCEPT !.pc = "awaitHook", !.race = "resolved"]]
                       /\ UNCHANGED aborted
                  [] OTHER ->
                       /\ call' = [call EXCEPT ![c] =
                             [r1 EXCEPT !.pc = "awaitHook", !.race = "pending",
                                        !.pending = r1.pending \cup {<<ext.name, "hook">>}]]
                       /\ UNCHANGED aborted
  /\ UNCHANGED <<clientVars, extensions, initialized, storeVars, regVars>>

\* The environment settles a pending promise returned by a handler.
Settle(c, comp, o) ==
  /\ comp \in call[c].pending
  /\ LET rec == call[c]
         awaited == /\ rec.race = "pending"
                    /\ rec.pc = (IF comp[2] = "hook" THEN "awaitHook" ELSE "awaitOnError")
                    /\ CurrentExt(rec).name = comp[1]
         r1 == [rec EXCEPT !.pending = rec.pending \ {comp},
                           !.race = IF awaited THEN o ELSE rec.race]
         r2 == IF o = "rejected"
               THEN IF comp[2] = "hook"
                    THEN [r1 EXCEPT !.failed = Append(r1.failed, comp[1])]
                    ELSE [r1 EXCEPT !.onErrorFailed = Append(r1.onErrorFailed, comp[1])]
               ELSE r1
     IN call' = [call EXCEPT ![c] = r2]
  /\ UNCHANGED <<clientVars, extensions, initialized, aborted, storeVars, regVars>>

\* The activation continues after await Promise.race([...]).
ResumeHook(c, o2) ==
  /\ call[c].pc = "awaitHook"
  /\ RaceSettled(call[c])
  /\ LET rec == call[c]
         ext == CurrentExt(rec)
     IN IF rec.race \in {"rejected", "aborted"}
        THEN LET newAb == IF CatchCompletes(ext, o2) /\ ShouldAbort(ext)
                          THEN Abort(aborted, c) ELSE aborted
                 msg == IF rec.race = "aborted" THEN AbortedMessage ELSE HookErrorMessage
             IN /\ call' = RejectRaces([call EXCEPT ![c] = Catch(rec, ext, msg, o2)],
                                       aborted, newAb)
                /\ aborted' = newAb
        ELSE /\ call' = [call EXCEPT ![c] =
                   [rec EXCEPT !.idx = rec.idx + 1, !.pc = "loop", !.race = "none"]]
             /\ UNCHANGED aborted
  /\ UNCHANGED <<clientVars, extensions, initialized, storeVars, regVars>>

\* The activation continues after await ext.hooks.onError(...).
ResumeOnError(c) ==
  /\ call[c].pc = "awaitOnError"
  /\ OnErrorSettled(call[c])
  /\ LET rec == call[c]
         ext == CurrentExt(rec)
         r1 == IF rec.race = "rejected"
               THEN [rec EXCEPT !.errors = OnErrorFailureErrors(rec.errors, ext.name)]
               ELSE rec
         newAb == IF ShouldAbort(ext) THEN Abort(aborted, c) ELSE aborted
     IN /\ call' = RejectRaces([call EXCEPT ![c] = AfterCatch(r1)], aborted, newAb)
        /\ aborted' = newAb
  /\ UNCHANGED <<clientVars, extensions, initialized, storeVars, regVars>>

\* initialize continues after await this.executeHook("init", ...).
InitReturn(c) ==
  /\ call[c].pc = "initReturn"
  /\ IF call[c].hookResult = "resolved"
     THEN /\ initialized' = TRUE
          /\ call' = [call EXCEPT ![c] = [call[c] EXCEPT !.pc = "done", !.result = "resolved"]]
     ELSE /\ initialized' = initialized
          /\ call' = [call EXCEPT ![c] =
                [call[c] EXCEPT !.pc = "done", !.result = "rejected", !.failure = "initFailed"]]
  /\ UNCHANGED <<clientVars, extensions, aborted, storeVars, regVars>>

Step(c) ==
  \/ \E h \in HookNames : ExecuteHookCall(c, h)
  \/ InitializeCall(c)
  \/ \E o \in HandlerOutcomes, o2 \in HandlerOutcomes : LoopStep(c, o, o2)
  \/ \E comp \in call[c].pending, o \in {"resolved", "rejected"} : Settle(c, comp, o)
  \/ \E o2 \in HandlerOutcomes : ResumeHook(c, o2)
  \/ ResumeOnError(c)
  \/ InitReturn(c)

\* ------------------------------------------------------------ specifications

\* A freshly constructed manager with the fixed registry; activations may
\* overlap.
Init ==
  /\ extensions = FixedRegistry
  /\ initialized = FALSE
  /\ call = [c \in Calls |-> IdleCall]
  /\ aborted = [c \in Calls |-> FALSE]
  /\ Constructed(extensions)
  /\ NoClient

Next == \E c \in Calls : Step(c)

Spec == Init /\ [][Next]_vars

\* One activation on a manager that is fresh or has been initialized.
InitOne(D) ==
  /\ extensions \in Registries(D)
  /\ initialized \in BOOLEAN
  /\ call = [c \in Calls |-> IdleCall]
  /\ aborted = [c \in Calls |-> FALSE]
  /\ Constructed(extensions)
  /\ NoClient

NextOne == Step(1)

\* Registries of every priority pattern.
InitOrder == InitOne([i \in 1..MaxExt |-> OrderDescriptors(i)])

SpecOrder == InitOrder /\ [][NextOne]_vars

\* Registries of every critical / onError pattern.
InitFailures == InitOne([i \in 1..MaxExt |-> FailureDescriptors(i)])

SpecFailures == InitFailures /\ [][NextOne]_vars

\* ------------------------------------------------- what the claims speak of

\* The registered extension of that name, its registration position, and its
\* priority with a missing priority counted as 0.
ExtNamed(name) == CHOOSE e \in {extensions[i] : i \in 1..Len(extensions)} : e.name = name

RegIndex(name) == CHOOSE i \in 1..Len(extensions) : extensions[i].name = name

EffectivePriority(name) ==
  LET e == ExtNamed(name) IN IF e.priority = {} THEN 0 ELSE CHOOSE p \in e.priority : TRUE

\* Membership in a log.
InLog(name, log) == \E k \in 1..Len(log) : log[k] = name

\* The names recorded in the errors array, in order.
ErrorNames(errors) == [k \in 1..Len(errors) |-> errors[k].name]

\* The activation got past the guards of initialize and executeHook.
Admitted(rec) == rec.op # "idle" /\ rec.failure \notin {"notInitialized", "alreadyInitialized"}

\* The loop of the activation's executeHook has ended.
LoopEnded(rec) == rec.hookResult # "none"

\* The registered extensions that declare the activation's hook.
Declaring(rec) ==
  {extensions[i].name : i \in {k \in 1..Len(extensions) : rec.hookName \in extensions[k].hooks}}

\* A critical extension's handler failed in the activation.
CriticalFailed(rec) == \E k \in 1..Len(rec.failed) : ExtNamed(rec.failed[k]).critical

\* C1: the handlers invoked by one executeHook call are invoked in descending
\* priority order, a missing priority counting as 0, and extensions of equal
\* priority in registration order; a call whose loop ended without an abort
\* has invoked the handler of every extension that declares the hook.
C1_PriorityOrder ==
  \A c \in Calls :
    LET s == call[c].started
    IN /\ \A i, j \in 1..Len(s) :
            i < j => \/ EffectivePriority(s[i]) > EffectivePriority(s[j])
                     \/ /\ EffectivePriority(s[i]) = EffectivePriority(s[j])
                        /\ RegIndex(s[i]) < RegIndex(s[j])
       /\ (LoopEnded(call[c]) /\ ~aborted[c]) =>
            {s[k] : k \in 1..Len(s)} = Declaring(call[c])

\* A finished call that invoked every extension, out of registration order,
\* with a tie between a missing priority and an explicit priority 0.
C1_Witness ==
  \E c \in Calls :
    LET s == call[c].started
    IN /\ call[c].pc = "done"
       /\ Len(s) = MaxExt
       /\ s[1] # ExtNames[1]
       /\ \E i, j \in 1..Len(s) :
            /\ i < j
            /\ ExtNamed(s[i]).priority = {}
            /\ ExtNamed(s[j]).priority = {0}

\* C2: within one executeHook call at most one handler computation is
\* unsettled at any time, it is the one of the extension the loop is at, and
\* the loop is not at the start of an iteration (nor past its end) while a
\* computation is unsettled.
C2_Sequential ==
  \A c \in Calls :
    LET rec == call[c]
    IN /\ Cardinality(rec.pending) <= 1
       /\ rec.pending # {} =>
            /\ rec.pc \in {"awaitHook", "awaitOnError"}
            /\ rec.pending =
                 {<<CurrentExt(rec).name,
                    IF rec.pc = "awaitHook" THEN "hook" ELSE "onError">>}
            /\ rec.started[Len(rec.started)] = CurrentExt(rec).name

\* A handler is suspended after an earlier handler of the same call had run.
C2_Witness ==
  \E c \in Calls :
    /\ Len(call[c].started) >= 2
    /\ call[c].pc = "awaitHook"
    /\ call[c].pending # {}

\* C3: once the handler of a critical extension has failed in a call, no
\* handler of a later extension is started in that call, and every extension
\* earlier in the execution order that declares the hook has been invoked.
C3_CriticalHalts ==
  \A c \in Calls :
    LET rec == call[c]
        s == rec.started
    IN \A k \in 1..Len(s) :
         (InLog(s[k], rec.failed) /\ ExtNamed(s[k]).critical) =>
           /\ k = Len(s)
           /\ \A p \in 1..Len(rec.sortedExtensions) :
                LET e == extensions[rec.sortedExtensions[p]]
                IN (p < rec.idx /\ rec.hookName \in e.hooks) => InLog(e.name, s)

\* A call has ended after a critical failure, with an earlier handler run and
\* a later extension that declares the hook never invoked.
C3_Witness ==
  \E c \in Calls :
    /\ call[c].pc = "done"
    /\ CriticalFailed(call[c])
    /\ Len(call[c].started) >= 2
    /\ \E n \in Declaring(call[c]) : ~InLog(n, call[c].started)

\* C4: when the loop of a call has ended and no critical extension's handler
\* failed in it, every extension that declares the hook has had its handler
\* invoked, whatever non-critical handlers failed.
C4_NonCriticalContinues ==
  \A c \in Calls :
    (LoopEnded(call[c]) /\ ~CriticalFailed(call[c])) =>
      \A n \in Declaring(call[c]) : InLog(n, call[c].started)

\* A non-critical handler failed and a later extension's handler was invoked.
C4_Witness ==
  \E c \in Calls :
    LET rec == call[c]
    IN /\ rec.pc = "done"
       /\ ~CriticalFailed(rec)
       /\ Len(rec.started) >= 2
       /\ InLog(rec.started[1], rec.failed)

\* C5 as stated: an executeHook call fails if and only if a handler invoked in
\* it failed, only after the loop has ended, and the aggregate error lists the
\* failed extensions in the order they failed.
C5_Original ==
  \A c \in Calls :
    LET rec == call[c]
    IN (rec.op = "executeHook" /\ rec.pc = "done") =>
         /\ rec.result = "rejected" <=> rec.failed # <<>>
         /\ rec.result = "rejected" =>
              /\ LoopEnded(rec)
              /\ ErrorNames(rec.errors) = rec.failed

\* C5 amended: the same for an executeHook call that passed the initialization
\* check (the manager is initialized or the hook is init): it fails iff a
\* handler failed, after the loop, with one `name: message` item per failed
\* handler in the order of failure.
C5_AggregateError ==
  \A c \in Calls :
    LET rec == call[c]
    IN Admitted(rec) =>
         /\ ~LoopEnded(rec) => rec.result = "none"
         /\ LoopEnded(rec) =>
              /\ rec.hookResult = "rejected" <=> rec.failed # <<>>
              /\ AggregateMessage(rec.errors) =
                   [k \in 1..Len(rec.failed) |-> <<rec.failed[k], HookErrorMessage>>]
              /\ \A i, j \in 1..Len(rec.errors) :
                   i # j => rec.errors[i].name # rec.errors[j].name
              /\ (rec.op = "executeHook") => rec.result = rec.hookResult

\* An executeHook call failed with two recorded failures.
C5_Witness ==
  \E c \in Calls :
    /\ call[c].op = "executeHook"
    /\ call[c].pc = "done"
    /\ call[c].result = "rejected"
    /\ Len(call[c].errors) = 2

\* The recorded failures of extensions that declare onError.
OnErrorDue(errors) == SelectSeq(errors, LAMBDA e : "onError" \in ExtNamed(e.name).hooks)

\* C6: the onError handlers invoked by a call's error handling are exactly
\* those of the extensions whose failure was recorded and that declare
\* onError, in that order, each with the recorded error and the extension's
\* own context; every failed extension but the one the loop is at
\* has had it invoked and settled; a failure of onError is never recorded and
\* does not keep the remaining extensions from running.
C6_OnErrorHandling ==
  \A c \in Calls :
    LET rec == call[c]
    IN /\ rec.onErrorCalls =
            [k \in 1..Len(OnErrorDue(rec.errors)) |->
               [name |-> OnErrorDue(rec.errors)[k].name,
                error |-> OnErrorDue(rec.errors)[k].message,
                ctx |-> [owner |-> OnErrorDue(rec.errors)[k].name]]]
       /\ \A k \in 1..Len(rec.started) :
            (k < Len(rec.started) /\ InLog(rec.started[k], rec.failed)) =>
               /\ InLog(rec.started[k], ErrorNames(rec.errors))
               /\ <<rec.started[k], "onError">> \notin rec.pending
       /\ \A k \in 1..Len(rec.errors) : rec.errors[k].message # OnErrorErrorMessage
       /\ \A k \in 1..Len(rec.onErrorFailed) :
            InLog(rec.onErrorFailed[k], ErrorNames(rec.onErrorCalls))
       /\ Len(rec.errors) <= Len(rec.failed)
       /\ (LoopEnded(rec) /\ ~CriticalFailed(rec)) =>
            \A n \in Declaring(rec) : InLog(n, rec.started)

\* An onError handler failed, a later extension's handler was still invoked,
\* and the call ended with the single handler failure recorded.
C6_Witness ==
  \E c \in Calls :
    LET rec == call[c]
    IN /\ rec.pc = "done"
       /\ rec.hookName = "beforeRequest"
       /\ Len(rec.started) >= 2
       /\ rec.onErrorFailed = <<rec.started[1]>>
       /\ Len(rec.errors) = 1

\* C7: the abort signal of a call is raised only by a critical failure in that
\* same call: a call is aborted only if a critical extension's handler failed
\* in it, no handler of it is ever rejected with the abort error, and a call
\* in which no critical handler failed invokes every declaring extension,
\* whatever happens in the other calls on the manager.
C7_AbortScoped ==
  \A c \in Calls :
    LET rec == call[c]
    IN /\ aborted[c] => CriticalFailed(rec)
       /\ rec.race # "aborted"
       /\ \A k \in 1..Len(rec.errors) : rec.errors[k].message # AbortedMessage
       /\ (LoopEnded(rec) /\ ~CriticalFailed(rec)) =>
            \A n \in Declaring(rec) : InLog(n, rec.started)

\* One call has raised its abort signal while another call, not aborted, has
\* gone past the critical extension and awaits a suspended handler.
C7_Witness ==
  \E c, d \in Calls :
    /\ c # d
    /\ aborted[c]
    /\ ~aborted[d]
    /\ call[d].pc = "awaitHook"
    /\ call[d].race = "pending"
    /\ Len(call[d].started) = 2

\* C8: an initialize call issued on an initialized manager is rejected with
\* the already-initialized error and invokes no init handler; the manager is
\* initialized once an initialize call has resolved.
C8_InitializeOnce ==
  /\ \A c \in Calls :
       (call[c].op = "initialize" /\ call[c].initializedAtCall) =>
          /\ call[c].pc = "done"
          /\ call[c].result = "rejected"
          /\ call[c].failure = "alreadyInitialized"
          /\ call[c].started = <<>>
  /\ (\E c \in Calls : call[c].op = "initialize" /\ call[c].result = "resolved")
       => initialized

\* An initialize call was issued after another one had resolved.
C8_Witness ==
  \E c, d \in Calls :
    /\ c # d
    /\ call[c].op = "initialize" /\ call[c].result = "resolved"
    /\ call[d].op = "initialize" /\ call[d].initializedAtCall

\* The number of times the init handler of the named extension was invoked by
\* the initialize calls c..MaxCalls.
RECURSIVE InitRunsFrom(_, _)
InitRunsFrom(name, c) ==
  IF c > MaxCalls THEN 0
  ELSE (IF call[c].op = "initialize" /\ InLog(name, call[c].started) THEN 1 ELSE 0)
       + InitRunsFrom(name, c + 1)

\* C9 as stated: over any sequence of initialize calls, no extension's init
\* handler is invoked more than once.
C9_InitAtMostOnce ==
  \A i \in 1..Len(extensions) : InitRunsFrom(extensions[i].name, 1) <= 1

\* C10: an executeHook call for a hook other than init issued on a manager
\* that is not initialized is rejected with the not-initialized error and
\* invokes no handler; executeHook("init") is not rejected by that check.
C10_RequiresInitialized ==
  \A c \in Calls :
    LET rec == call[c]
    IN (rec.op = "executeHook" /\ ~rec.initializedAtCall) =>
         /\ rec.hookName # "init" =>
              /\ rec.pc = "done"
              /\ rec.result = "rejected"
              /\ rec.failure = "notInitialized"
              /\ rec.started = <<>>
         /\ rec.hookName = "init" => rec.failure # "notInitialized"

\* On a manager that is not initialized one executeHook call for beforeRequest
\* was rejected and an executeHook("init") call invoked a handler.
C10_Witness ==
  \E c, d \in Calls :
    /\ call[c].op = "executeHook" /\ call[c].hookName = "beforeRequest"
    /\ ~call[c].initializedAtCall /\ call[c].result = "rejected"
    /\ call[d].op = "executeHook" /\ call[d].hookName = "init"
    /\ ~call[d].initializedAtCall /\ Len(call[d].started) >= 1


\* ------------------------------------------- construction and registration

\* The longest list handed to extend.
MaxMore == 2

\* The names of the extensions handed to the constructor and to extend.
RegNames == {"", " ", "A", "B", "C"}

\* String.prototype.trim, on the names of RegNames.
Trim(s) == IF s = " " THEN "" ELSE s

\* The extensions handed to the constructor and to extend: one per name,
\* without hooks, and a second extension named "A" that brings an
\* initialState and an init hook.
RegDescriptors ==
  [name : RegNames, priority : {{}}, critical : {FALSE}, hooks : {{}}]
  \cup {[name |-> "A", priority |-> {}, critical |-> FALSE, hooks |-> {"init"},
         initialState |-> {<<"n", 1>>}]}

\* The lists of at most n extensions.
RegLists(n) == UNION {[1..k -> RegDescriptors] : k \in 0..n}

\* !ext.name || typeof ext.name !== "string" || ext.name.trim() === ""
BlankName(ext) == ext.name = "" \/ Trim(ext.name) = ""

NeverDuplicate(ext, names) == FALSE

\* names.has(ext.name)
DuplicateName(ext, names) == ext.name \in names

NoError == [error |-> "none", extensionName |-> "none"]

\* One iteration of the validation loop: the error it throws, NoError when it
\* adds the name to `names`. createExtensionError sets extensionName only
\* when it is given one.
ValidateName(ext, names) ==
  IF BlankName(ext)
  THEN [error |-> "Extension must have a non-empty name", extensionName |-> "none"]
  ELSE IF DuplicateName(ext, names)
       THEN [error |-> "Duplicate extension name", extensionName |-> ext.name]
       ELSE NoError

\* Map.prototype.set on a Map kept as the sequence of its values in insertion
\* order, keyed by name: an existing key keeps its position.
MapSet(map, ext) ==
  IF \E j \in 1..Len(map) : map[j].name = ext.name
  THEN [j \in 1..Len(map) |-> IF map[j].name = ext.name THEN ext ELSE map[j]]
  ELSE Append(map, ext)

\* The validation loop over list from position i on: the error of the first
\* offending extension, NoError when the loop ends.
RECURSIVE ValidateFrom(_, _, _)
ValidateFrom(list, i, names) ==
  IF i > Len(list) THEN NoError
  ELSE LET e == ValidateName(list[i], names)
       IN IF e # NoError THEN e
          ELSE ValidateFrom(list, i + 1, names \cup {list[i].name})

\* The registration loop over list from position i on.
RECURSIVE RegisterFrom(_, _, _)
RegisterFrom(list, i, map) ==
  IF i > Len(list) THEN map
  ELSE RegisterFrom(list, i + 1, MapSet(map, list[i]))

\* A context whose state starts as the current private state that the
\* manager at hand keeps for an extension of that name.
CarriedState(ext) ==
  IF ext.name \in DOMAIN state THEN heap[state[ext.name]] ELSE InitialStateOf(ext)

\* The `let state` of the context registerExtensions creates for ext:
\* Object.freeze(produce(ext.initialState || {}, () => {})).
ContextState(ext) == InitialStateOf(ext)

\* new WefyExtensionManager(list), as one step: the error it throws, or the
\* manager it returns: its extensions, its initialized field, its shared
\* Map and the state of its contexts.
NewManager(list) ==
  LET e == IF Len(list) > 0 THEN ValidateFrom(list, 1, {}) ELSE NoError
      registered == RegisterFrom(list, 1, <<>>)
  IN IF e # NoError
     THEN [status |-> "threw", error |-> e.error, extensionName |-> e.extensionName]
     ELSE [status |-> "returned", extensions |-> registered,
           initialized |-> FALSE,
           sharedState |-> EmptyMap,
           state |-> [n \in {registered[i].name : i \in 1..Len(registered)} |->
                        ContextState(CHOOSE ext \in {registered[i] : i \in 1..Len(registered)} :
                                       ext.name = n)]]

\* mergeExtensions(baseExtensions, additionalExtensions) of utils.ts, which
\* extend does not call.
mergeExtensions(baseExtensions, additionalExtensions) ==
  RegisterFrom(additionalExtensions, 1, RegisterFrom(baseExtensions, 1, <<>>))

\* The constructor, after the three Maps are created.
Constructor ==
  /\ reg.pc = "constructor"
  /\ reg' = [reg EXCEPT !.pc = IF Len(reg.input) > 0 THEN "validate" ELSE "done",
                        !.i = 1]
  /\ UNCHANGED <<clientVars, extensions, initialized, call, aborted, storeVars, extended, getter>>

\* One iteration of the first loop of registerExtensions.
ValidateStep ==
  /\ reg.pc = "validate"
  /\ LET ext == reg.input[reg.i]
         e == ValidateName(ext, reg.names)
     IN reg' = IF e # NoError
               THEN [reg EXCEPT !.pc = "threw", !.error = e.error,
                                !.extensionName = e.extensionName]
               ELSE [reg EXCEPT !.names = reg.names \cup {ext.name},
                                !.i = IF reg.i = Len(reg.input) THEN 1 ELSE reg.i + 1,
                                !.pc = IF reg.i = Len(reg.input)
                                       THEN "register" ELSE "validate"]
  /\ UNCHANGED <<clientVars, extensions, initialized, call, aborted, storeVars, extended, getter>>

\* One iteration of the second loop of registerExtensions: the extension is
\* stored, its context created with the frozen initial state, and stored.
RegisterStep ==
  /\ reg.pc = "register"
  /\ LET ext == reg.input[reg.i]
     IN /\ extensions' = MapSet(extensions, ext)
        /\ heap' = Append(heap, InitialStateOf(ext))
        /\ state' = [n \in DOMAIN state \cup {ext.name} |->
                       IF n = ext.name THEN Len(heap) + 1 ELSE state[n]]
  /\ reg' = [reg EXCEPT !.i = reg.i + 1,
                        !.pc = IF reg.i = Len(reg.input) THEN "done" ELSE "register"]
  /\ UNCHANGED <<clientVars, initialized, call, aborted, sharedState, written, held, lastOp,
                 extended, getter>>

\* The manager extend is called on, as it is at the call: the initialized
\* flag, the shared Map and the content of each context's state.
OriginalManager ==
  [initialized |-> initialized,
   sharedState |-> sharedState,
   state |-> [n \in DOMAIN state |-> heap[state[n]]]]

\* extend(additionalExtensions) on the constructed manager.
Extend(additionalExtensions) ==
  /\ reg.pc = "done"
  /\ extended = NotExtended
  /\ extended' = NewManager(extensions \o additionalExtensions)
                   @@ [base |-> extensions, more |-> additionalExtensions,
                       original |-> OriginalManager]
  /\ UNCHANGED <<clientVars, extensions, initialized, call, aborted, storeVars, reg, getter>>

\* The caller holds the manager, and can call its methods, once the
\* constructor has returned.
ManagerStep ==
  /\ reg.pc = "done"
  /\ Step(1)

\* The constructor is entered with any list of at most MaxExt extensions.
InitRegister ==
  /\ extensions = <<>>
  /\ initialized = FALSE
  /\ call = [c \in Calls |-> IdleCall]
  /\ aborted = [c \in Calls |-> FALSE]
  /\ heap = <<>>
  /\ state = EmptyMap
  /\ sharedState = EmptyMap
  /\ written = EmptyMap
  /\ held = {}
  /\ lastOp = NoOp
  /\ reg \in {[IdleReg EXCEPT !.pc = "constructor", !.input = l] : l \in RegLists(MaxExt)}
  /\ extended = NotExtended
  /\ NoClient
  /\ getter = IdleGetter

NextRegister ==
  \/ Constructor
  \/ ValidateStep
  \/ RegisterStep
  \/ \E more \in RegLists(MaxMore) : Extend(more)
  \/ ManagerStep

SpecRegister == InitRegister /\ [][NextRegister]_vars

\* ---- C11

\* The list handed to the constructor has a blank name or a repeated name.
InvalidList(list) ==
  \/ \E i \in 1..Len(list) : list[i].name \in {"", " "}
  \/ \E i, j \in 1..Len(list) : i < j /\ list[i].name = list[j].name

\* The first position of list that is blank or repeats an earlier name.
FirstOffender(list) ==
  CHOOSE i \in 1..Len(list) :
    /\ list[i].name \in {"", " "} \/ \E j \in 1..(i - 1) : list[j].name = list[i].name
    /\ \A k \in 1..(i - 1) :
         ~(list[k].name \in {"", " "} \/ \E j \in 1..(k - 1) : list[j].name = list[k].name)

\* C11: when the list handed to the constructor has a repeated or a blank
\* name, no extension is ever stored, no context is ever created and no hook
\* is ever run, and once the constructor has left the validation loop it has
\* thrown an error, which names the repeated name when the first offending
\* extension is a repetition; for every list, the registration of the first
\* extension starts only after every name was validated.
C11_ValidationFirst ==
  /\ InvalidList(reg.input) =>
       /\ extensions = <<>>
       /\ DOMAIN state = {}
       /\ heap = <<>>
       /\ call[1].op = "idle"
       /\ reg.pc \in {"constructor", "validate", "threw"}
       /\ reg.pc = "threw" =>
            LET o == reg.input[FirstOffender(reg.input)]
            IN /\ reg.error # "none"
               /\ o.name \notin {"", " "} =>
                    /\ reg.error = "Duplicate extension name"
                    /\ reg.extensionName = o.name
  /\ (reg.pc \in {"register", "done"} \/ extensions # <<>> \/ DOMAIN state # {}) =>
       reg.names = {reg.input[i].name : i \in 1..Len(reg.input)}

\* A list whose third name repeats the first was rejected, naming it.
C11_Witness ==
  /\ reg.pc = "threw"
  /\ Len(reg.input) = 3
  /\ reg.input[1].name = "A"
  /\ reg.input[2].name = "B"
  /\ reg.input[3].name = "A"
  /\ reg.extensionName = "A"

\* ---- C12

\* C12: every extend(more) whose list repeats no name within itself and has
\* no blank name returns a manager, and that manager holds, for every name in
\* `more`, the extension of `more`.
C12_ExtendOverrides ==
  (extended.status # "none" /\ ~InvalidList(extended.more)) =>
    /\ extended.status = "returned"
    /\ extended.extensions = mergeExtensions(extended.base, extended.more)


\* ------------------------------------------------ setState and extensionState

\* The most snapshots setState allocates in one behaviour.
MaxAlloc == 2

\* The most snapshots the callers keep from reads of extensionState.
MaxHeld == 2

\* The values a modifier writes to the key "n" of its draft.
StateValues == {1, 2}

\* The modifiers handed to setState: a function that leaves the draft alone,
\* one that writes draft.n, one that throws, one that writes draft.n and then
\* throws, and a value that is not a function.
Modifiers ==
  {[kind |-> "noop"], [kind |-> "throws"], [kind |-> "notFunction"]}
  \cup [kind : {"set", "setThenThrow"}, value : StateValues]

\* The modifier run on immer's draft of content.
ApplyModifier(content, modifier) ==
  CASE modifier.kind = "noop" -> [threw |-> FALSE, content |-> content]
    [] modifier.kind = "set" ->
         [threw |-> FALSE,
          content |-> {kv \in content : kv[1] # "n"} \cup {<<"n", modifier.value>>}]
    [] OTHER -> [threw |-> TRUE, content |-> content]

ProduceInPlace(h, ref, modifier) ==
  LET r == ApplyModifier(h[ref], modifier)
  IN [threw |-> r.threw, heap |-> [h EXCEPT ![ref] = r.content], ref |-> ref]

\* produce(state, modifier) of immer on the snapshot at ref: a throw of the
\* modifier discards the draft, a draft left as it was gives the base object
\* back, and a changed draft is finalised as a new frozen object.
Produce(h, ref, modifier) ==
  LET r == ApplyModifier(h[ref], modifier)
  IN IF r.threw THEN [threw |-> TRUE, heap |-> h, ref |-> ref]
     ELSE IF r.content = h[ref] THEN [threw |-> FALSE, heap |-> h, ref |-> ref]
     ELSE [threw |-> FALSE, heap |-> Append(h, r.content), ref |-> Len(h) + 1]

FirstSlot(ctx) == extensions[1].name

\* The `let state` that the closures of a context share: one per call of
\* createExtensionContext, that is one per extension.
StateSlot(ctx) == ctx.owner

NeverNotifies(ext) == FALSE

\* if (extension?.hooks?.onStateChange)
NotifiesStateChange(ext) == DeclaresHook(ext, "onStateChange")

StateChangeCallSwapped(extensionName, previousState, newState) ==
  [name |-> extensionName, previousState |-> newState, newState |-> previousState,
   ctx |-> ContextOf(extensionName)]

\* extension.hooks.onStateChange({ previousState, newState: state }, context)
StateChangeCall(extensionName, previousState, newState) ==
  [name |-> extensionName, previousState |-> previousState, newState |-> newState,
   ctx |-> ContextOf(extensionName)]

UntaggedError(message, extensionName) ==
  [error |-> message, extensionName |-> "none"]

\* createExtensionError(message, extensionName)
createExtensionError(message, extensionName) ==
  [error |-> message, extensionName |-> extensionName]

\* this.extensions.get(extensionName)
ExtensionsGet(extensionName) ==
  extensions[CHOOSE i \in 1..Len(extensions) : extensions[i].name = extensionName]

\* context.setState(modifier), with the outcome of onStateChange when it is
\* called.
SetState(ctx, modifier, outcome) ==
  /\ Len(heap) < Len(extensions) + MaxAlloc
  /\ LET extensionName == ctx.owner
         slot == StateSlot(ctx)
         previousState == state[slot]
         p == Produce(heap, previousState, modifier)
         notified == ~p.threw /\ NotifiesStateChange(ExtensionsGet(extensionName))
         calls == IF notified
                  THEN <<StateChangeCall(extensionName, previousState, p.ref)>>
                  ELSE <<>>
         threw == p.threw \/ (notified /\ outcome = "throws")
         op == [op |-> "setState", ctx |-> ctx, modifier |-> modifier,
                previous |-> state, previousHeap |-> heap]
     IN IF modifier.kind = "notFunction"
        THEN /\ lastOp' = op @@ [result |-> "threw", onStateChange |-> <<>>,
                                 onStateChangeThrew |-> FALSE]
                             @@ createExtensionError("State modifier must be a function",
                                                     extensionName)
             /\ UNCHANGED <<heap, state>>
        ELSE /\ heap' = p.heap
             /\ state' = [state EXCEPT ![slot] = p.ref]
             /\ lastOp' = op @@ [result |-> IF threw THEN "threw" ELSE "returned",
                                 onStateChange |-> calls,
                                 onStateChangeThrew |-> notified /\ outcome = "throws"]
                             @@ (IF threw
                                 THEN createExtensionError("Failed to update state",
                                                           extensionName)
                                 ELSE NoError)
  /\ UNCHANGED <<clientVars, extensions, initialized, call, aborted, sharedState, written, held,
                 regVars>>

\* A caller reads context.extensionState and keeps what it got.
ReadState(ctx) ==
  /\ Cardinality(held) < MaxHeld
  /\ held' = held \cup {[ref |-> state[StateSlot(ctx)],
                         content |-> heap[state[StateSlot(ctx)]]]}
  /\ UNCHANGED <<clientVars, extensions, initialized, call, aborted, heap, state, sharedState,
                 written, lastOp, regVars>>

\* The registry of the state specifications: A and B declare onStateChange, C
\* declares no hook; A brings an initialState and declares onError; A and B
\* declare init.
StateRegistry ==
  << [name |-> "A", priority |-> {}, critical |-> FALSE,
      hooks |-> {"init", "onError", "onStateChange"}, initialState |-> {<<"n", 1>>}],
     [name |-> "B", priority |-> {}, critical |-> FALSE,
      hooks |-> {"init", "onStateChange"}],
     [name |-> "C", priority |-> {}, critical |-> FALSE, hooks |-> {}] >>

\* The contexts of the manager.
Contexts == {ContextOf(extensions[i].name) : i \in 1..Len(extensions)}

InitState ==
  /\ extensions = StateRegistry
  /\ initialized = FALSE
  /\ call = [c \in Calls |-> IdleCall]
  /\ aborted = [c \in Calls |-> FALSE]
  /\ Constructed(extensions)
  /\ NoClient

\* What onStateChange can do in context.setState(modifier): return or throw
\* when setState gets to call it, nothing otherwise.
StateChangeOutcomes(ctx, modifier) ==
  IF /\ modifier.kind \in {"noop", "set"}
     /\ NotifiesStateChange(ExtensionsGet(ctx.owner))
  THEN {"returns", "throws"} ELSE {"none"}

SetStateCall ==
  \E ctx \in Contexts, modifier \in Modifiers :
    \E outcome \in StateChangeOutcomes(ctx, modifier) : SetState(ctx, modifier, outcome)

ReadStateCall == \E ctx \in Contexts : ReadState(ctx)

NextState ==
  \/ SetStateCall
  \/ ReadStateCall

SpecState == InitState /\ [][NextState]_vars

\* Hooks run while the contexts are used.
NextIsolation ==
  \/ SetStateCall
  \/ Step(1)

SpecIsolation == InitState /\ [][NextIsolation]_vars

\* ---- C13

\* C13: every snapshot a caller obtained from extensionState still has the
\* content it had when it was obtained, and a setState whose modifier returned
\* after changing its draft left a snapshot other than the previous one in
\* extensionState.
C13_SnapshotsImmutable ==
  /\ \A s \in held : heap[s.ref] = s.content
  /\ (lastOp.op = "setState" /\ lastOp.modifier.kind = "set"
        /\ <<"n", lastOp.modifier.value>> \notin
             lastOp.previousHeap[lastOp.previous[lastOp.ctx.owner]]) =>
       /\ state[lastOp.ctx.owner] # lastOp.previous[lastOp.ctx.owner]
       /\ heap[lastOp.previous[lastOp.ctx.owner]] =
            lastOp.previousHeap[lastOp.previous[lastOp.ctx.owner]]

\* A held snapshot of A has n = 1 while A's extensionState has n = 2.
C13_Witness ==
  /\ \E s \in held : s.ref = 1 /\ s.content = {<<"n", 1>>}
  /\ heap[state["A"]] = {<<"n", 2>>}
  /\ lastOp.op = "setState"

\* ---- C14

\* C14: every handler was invoked with the context of its own extension, and
\* the last setState, made through the context of one extension, left the
\* extensionState of every other extension the very snapshot it was.
C14_PrivateStateIsolated ==
  /\ \A k \in 1..Len(call[1].started) :
       call[1].startedCtx[k] = [owner |-> call[1].started[k]]
  /\ lastOp.op = "setState" =>
       \A i \in 1..Len(extensions) :
         extensions[i].name # lastOp.ctx.owner =>
           /\ state[extensions[i].name] = lastOp.previous[extensions[i].name]
           /\ heap[state[extensions[i].name]] =
                lastOp.previousHeap[lastOp.previous[extensions[i].name]]

\* B's setState changed B's state after the handlers of A and B were invoked.
C14_Witness ==
  /\ Len(call[1].started) >= 2
  /\ lastOp.op = "setState"
  /\ lastOp.ctx.owner = "B"
  /\ state["B"] # lastOp.previous["B"]
  /\ \E i \in 1..Len(extensions) :
       extensions[i].name = "A" /\ state["A"] # i

\* ---- C15

\* C15: a setState whose modifier throws fails with an error that carries the
\* name of the owning extension, calls no onStateChange and leaves in
\* extensionState the snapshot that was there, with its content.
C15_ModifierThrows ==
  (lastOp.op = "setState" /\ lastOp.modifier.kind \in {"throws", "setThenThrow"}) =>
    /\ lastOp.result = "threw"
    /\ lastOp.error # "none"
    /\ lastOp.extensionName = lastOp.ctx.owner
    /\ lastOp.onStateChange = <<>>
    /\ state[lastOp.ctx.owner] = lastOp.previous[lastOp.ctx.owner]
    /\ heap[state[lastOp.ctx.owner]] =
         lastOp.previousHeap[lastOp.previous[lastOp.ctx.owner]]

\* A modifier that wrote n = 2 to the draft of A and threw.
C15_Witness ==
  /\ lastOp.op = "setState"
  /\ lastOp.modifier = [kind |-> "setThenThrow", value |-> 2]
  /\ lastOp.ctx.owner = "A"
  /\ lastOp.result = "threw"

\* ---- C16

\* C16: a setState during which onStateChange throws fails with an error that
\* carries the name of the extension, and extensionState is afterwards the
\* snapshot it was before the call.
C16_OnStateChangeThrows ==
  (lastOp.op = "setState" /\ lastOp.onStateChangeThrew) =>
    /\ lastOp.result = "threw"
    /\ lastOp.extensionName = lastOp.ctx.owner
    /\ state[lastOp.ctx.owner] = lastOp.previous[lastOp.ctx.owner]

\* ---- C17

\* C17: a setState with a function as modifier that does not throw, on an
\* extension that declares onStateChange, called onStateChange of that
\* extension once and no other, with the snapshot stored before the call as
\* previousState, the snapshot stored after it as newState, and the context of
\* the extension; setState is one step, so the call happened before it
\* returned.
C17_OnStateChangeOnce ==
  (lastOp.op = "setState" /\ lastOp.modifier.kind \in {"noop", "set"}) =>
    LET owner == lastOp.ctx.owner
        declares == \E i \in 1..Len(extensions) :
                      extensions[i].name = owner /\ "onStateChange" \in extensions[i].hooks
    IN /\ declares =>
            lastOp.onStateChange =
              << [name |-> owner, previousState |-> lastOp.previous[owner],
                  newState |-> state[owner], ctx |-> [owner |-> owner]] >>
       /\ ~declares => lastOp.onStateChange = <<>>

\* B's onStateChange received two different snapshots.
C17_Witness ==
  /\ lastOp.op = "setState"
  /\ lastOp.ctx.owner = "B"
  /\ Len(lastOp.onStateChange) = 1
  /\ lastOp.onStateChange[1].previousState # lastOp.onStateChange[1].newState
  /\ lastOp.result = "returned"


\* ------------------------------------------------------------ shared state

\* The depth of nested calls at which the engine throws a RangeError.
MaxStackDepth == 3

\* The keys and the values of the shared state; "" is the empty key.
SharedKeys == {"x", ""}

SharedValues == {1, 2}

\* What a lookup returns is kept as a set: {v} for the value v, {} for
\* undefined.
Undefined == {}

MapGetMissing(map, key) == Undefined

\* Map.prototype.get
MapGet(map, key) == IF key \in DOMAIN map THEN {map[key]} ELSE Undefined

MapPutIfAbsent(map, key, value) ==
  [k \in DOMAIN map \cup {key} |-> IF k \in DOMAIN map THEN map[k] ELSE value]

\* Map.prototype.set
MapPut(map, key, value) ==
  [k \in DOMAIN map \cup {key} |-> IF k = key THEN value ELSE map[k]]

\* Map.prototype.clear
MapClear(map) == EmptyMap

\* !key || typeof key !== "string"
InvalidKey(key) == key = ""

\* The handlers of activation c that were invoked and have not settled: the
\* code of such a handler runs, with the context it was given.
AliveHandlers(c) == {comp[1] : comp \in {p \in call[c].pending : p[2] = "hook"}}

\* The position in the invocation order of activation c of the handler of
\* the extension `name`.
HandlerPosition(c, name) ==
  CHOOSE k \in 1..Len(call[c].started) :
    /\ call[c].started[k] = name
    /\ \A j \in (k + 1)..Len(call[c].started) : call[c].started[j] # name

\* Who uses a context: code outside the hooks, which got the context from
\* getExtensionContext, or a handler of activation 1, which got it as its
\* last argument.
ContextUsers ==
  [kind : {"caller"}, ctx : Contexts, pos : {0}]
  \cup {[kind |-> "handler", ctx |-> ContextOf(n), pos |-> HandlerPosition(1, n)] :
          n \in AliveHandlers(1)}

ManagerUser == [kind |-> "manager", pos |-> 0]

\* The record of a write of `value` to `key` by `by`, added to `written`.
Record(key, value, by) ==
  [k \in DOMAIN written \cup {key} |->
     IF k = key THEN [value |-> value, by |-> by] ELSE written[k]]

\* context.setSharedState(key, value)
ContextSetSharedState(by, key, value) ==
  /\ sharedState' = MapPut(sharedState, key, value)
  /\ written' = Record(key, value, by)
  /\ lastOp' = [op |-> "setSharedState", by |-> by, key |-> key, value |-> value,
                result |-> "returned"]
  /\ UNCHANGED <<clientVars, extensions, initialized, call, aborted, heap, state, held, regVars>>

\* context.getSharedState(key)
ContextGetSharedState(by, key) ==
  /\ lastOp' = [op |-> "getSharedState", by |-> by, key |-> key,
                result |-> MapGet(sharedState, key)]
  /\ UNCHANGED <<clientVars, extensions, initialized, call, aborted, heap, state, sharedState,
                 written, held, regVars>>

\* manager.setSharedState(key, value)
ManagerSetSharedState(key, value) ==
  /\ IF InvalidKey(key)
     THEN /\ lastOp' = [op |-> "setSharedState", by |-> ManagerUser, key |-> key,
                        value |-> value, result |-> "threw"]
          /\ UNCHANGED <<sharedState, written>>
     ELSE /\ sharedState' = MapPut(sharedState, key, value)
          /\ written' = Record(key, value, ManagerUser)
          /\ lastOp' = [op |-> "setSharedState", by |-> ManagerUser, key |-> key,
                        value |-> value, result |-> "returned"]
  /\ UNCHANGED <<clientVars, extensions, initialized, call, aborted, heap, state, held, regVars>>

\* manager.getSharedState(key)
ManagerGetSharedState(key) ==
  /\ lastOp' = [op |-> "getSharedState", by |-> ManagerUser, key |-> key,
                threw |-> InvalidKey(key),
                result |-> IF InvalidKey(key) THEN Undefined
                           ELSE MapGet(sharedState, key)]
  /\ UNCHANGED <<clientVars, extensions, initialized, call, aborted, heap, state, sharedState,
                 written, held, regVars>>

\* manager.clearSharedState()
ClearSharedState ==
  /\ sharedState' = MapClear(sharedState)
  /\ written' = EmptyMap
  /\ lastOp' = [op |-> "clearSharedState", by |-> ManagerUser]
  /\ UNCHANGED <<clientVars, extensions, initialized, call, aborted, heap, state, held, regVars>>

\* The getter `get sharedState() { return new Map(this.sharedState) }` of the
\* context object, entered at the given depth of nested calls: `this` is the
\* context, so that this.sharedState is a call of the same getter.
RECURSIVE SharedStateGetter(_, _)
SharedStateGetter(ctx, depth) ==
  IF depth > MaxStackDepth
  THEN [threw |-> TRUE, error |-> "RangeError"]
  ELSE LET inner == SharedStateGetter(ctx, depth + 1)
       IN IF inner.threw THEN inner
          ELSE [threw |-> FALSE, view |-> [k \in DOMAIN inner.view |-> inner.view[k]]]

\* A read of context.sharedState.
ReadSharedState(ctx) ==
  /\ getter.pc = "idle"
  /\ getter' = [pc |-> "done", depth |-> MaxStackDepth,
                result |-> SharedStateGetter(ctx, 1)]
  /\ UNCHANGED <<clientVars, extensions, initialized, call, aborted, storeVars, extended, reg>>

\* The registry of the shared-state specification: A runs before B.
SharedRegistry ==
  << [name |-> "B", priority |-> {5}, critical |-> FALSE, hooks |-> {"beforeRequest"}],
     [name |-> "A", priority |-> {10}, critical |-> FALSE, hooks |-> {"beforeRequest"}] >>

InitShared ==
  /\ extensions = SharedRegistry
  /\ initialized = TRUE
  /\ call = [c \in Calls |-> IdleCall]
  /\ aborted = [c \in Calls |-> FALSE]
  /\ Constructed(extensions)
  /\ NoClient

\* One executeHook("beforeRequest") call, whose handlers use their contexts,
\* while callers use the contexts and the manager.
NextShared ==
  \/ ExecuteHookCall(1, "beforeRequest")
  \/ \E o \in HandlerOutcomes : LoopStep(1, o, "returns")
  \/ \E comp \in call[1].pending, o \in {"resolved", "rejected"} : Settle(1, comp, o)
  \/ ResumeHook(1, "returns")
  \/ \E by \in ContextUsers, key \in SharedKeys, value \in SharedValues :
       ContextSetSharedState(by, key, value)
  \/ \E by \in ContextUsers, key \in SharedKeys : ContextGetSharedState(by, key)
  \/ \E key \in SharedKeys, value \in SharedValues : ManagerSetSharedState(key, value)
  \/ \E key \in SharedKeys : ManagerGetSharedState(key)
  \/ ClearSharedState
  \/ \E ctx \in Contexts : ReadSharedState(ctx)

SpecShared == InitShared /\ [][NextShared]_vars

\* ---- C18

\* C18: when a handler of an executeHook call reads a key whose last write was
\* made by a handler invoked earlier in the same call, it gets the value of
\* that write; the writer is then an extension of at least the priority of the
\* reader.
C18_SharedWriteVisibleLater ==
  (/\ lastOp.op = "getSharedState"
   /\ lastOp.by.kind = "handler"
   /\ lastOp.key \in DOMAIN written
   /\ written[lastOp.key].by.kind = "handler"
   /\ written[lastOp.key].by.pos < lastOp.by.pos) =>
     /\ lastOp.result = {written[lastOp.key].value}
     /\ EffectivePriority(written[lastOp.key].by.ctx.owner)
          >= EffectivePriority(lastOp.by.ctx.owner)

\* The handler of B read x = 1, written by the handler of A.
C18_Witness ==
  /\ lastOp.op = "getSharedState"
  /\ lastOp.by.kind = "handler"
  /\ lastOp.by.ctx.owner = "B"
  /\ lastOp.key = "x"
  /\ lastOp.result = {1}
  /\ "x" \in DOMAIN written
  /\ written["x"].by.kind = "handler"
  /\ written["x"].by.ctx.owner = "A"

\* ---- C19

\* C19: at any time, this.sharedState holds for every key the value of the
\* last write to it since the last clearSharedState, whoever made it, and no
\* other key; a getSharedState through a context returned that value, or
\* undefined for a key not written since.
C19_OneSharedMap ==
  /\ DOMAIN sharedState = DOMAIN written
  /\ \A k \in DOMAIN written : sharedState[k] = written[k].value
  /\ (lastOp.op = "getSharedState" /\ lastOp.by.kind # "manager") =>
       lastOp.result = IF lastOp.key \in DOMAIN written
                       THEN {written[lastOp.key].value} ELSE Undefined

\* The context of A returned the value the manager wrote over a write made
\* through the context of B.
C19_Witness ==
  /\ lastOp.op = "getSharedState"
  /\ lastOp.by.kind = "caller"
  /\ lastOp.by.ctx.owner = "A"
  /\ lastOp.key = "x"
  /\ lastOp.result = {2}
  /\ written["x"].by.kind = "manager"

\* ---- C20

HandlerRead(c, name) ==
  /\ name \in AliveHandlers(c)
  /\ name \notin DOMAIN call[c].locals
  /\ LET got == MapGet(sharedState, "x")
         n == IF got = Undefined THEN 0 ELSE CHOOSE v \in got : TRUE
     IN /\ call' = [call EXCEPT ![c].locals =
                      [m \in DOMAIN call[c].locals \cup {name} |->
                         IF m = name THEN n ELSE call[c].locals[m]]]
        /\ lastOp' = [op |-> "getSharedState",
                      by |-> [kind |-> "handler", ctx |-> ContextOf(name), call |-> c],
                      key |-> "x", result |-> got]
  /\ UNCHANGED <<clientVars, extensions, initialized, aborted, heap, state, sharedState, written,
                 held, regVars>>

\* The same handler, later, runs `ctx.setSharedState("x", n + 1)`.
HandlerWrite(c, name) ==
  /\ name \in AliveHandlers(c)
  /\ name \in DOMAIN call[c].locals
  /\ name \notin call[c].wrote
  /\ LET by == [kind |-> "handler", ctx |-> ContextOf(name), call |-> c]
         value == call[c].locals[name] + 1
     IN /\ sharedState' = MapPut(sharedState, "x", value)
        /\ written' = Record("x", value, by)
        /\ lastOp' = [op |-> "setSharedState", by |-> by, key |-> "x",
                      value |-> value, result |-> "returned"]
  /\ call' = [call EXCEPT ![c].wrote = call[c].wrote \cup {name}]
  /\ UNCHANGED <<clientVars, extensions, initialized, aborted, heap, state, held, regVars>>

\* A handler of activation c, invoked and not settled, runs
\* `ctx.setState(draft => { draft.n = value })`.
HandlerSetState(c, name, value) ==
  /\ name \in AliveHandlers(c)
  /\ SetState(ContextOf(name), [kind |-> "set", value |-> value], "none")

\* The registry of the concurrent specification: an extension with a
\* beforeRequest handler and one without hooks, not critical.
ConcurrentRegistry ==
  << [name |-> "A", priority |-> {}, critical |-> FALSE, hooks |-> {"beforeRequest"}],
     [name |-> "B", priority |-> {}, critical |-> FALSE, hooks |-> {}] >>

InitConcurrent ==
  /\ extensions = ConcurrentRegistry
  /\ initialized = TRUE
  /\ call = [c \in Calls |-> IdleCall]
  /\ aborted = [c \in Calls |-> FALSE]
  /\ Constructed(extensions)
  /\ NoClient

\* Every activation is an executeHook("beforeRequest") call of some pipeline;
\* the handlers are async functions, which suspend and later resolve.
NextConcurrent ==
  \E c \in Calls :
    \/ ExecuteHookCall(c, "beforeRequest")
    \/ LoopStep(c, "suspends", "returns")
    \/ \E comp \in call[c].pending : Settle(c, comp, "resolved")
    \/ ResumeHook(c, "returns")
    \/ \E name \in AliveHandlers(c) : HandlerRead(c, name)
    \/ \E name \in AliveHandlers(c) : HandlerWrite(c, name)
    \/ \E name \in AliveHandlers(c), value \in StateValues : HandlerSetState(c, name, value)

SpecConcurrent == InitConcurrent /\ [][NextConcurrent]_vars

\* ---- C21

\* The number of `setSharedState("x", n + 1)` the handlers of the activations
\* 1..n have executed.
RECURSIVE WritesUpTo(_)
WritesUpTo(n) ==
  IF n = 0 THEN 0 ELSE Cardinality(call[n].wrote) + WritesUpTo(n - 1)

\* The activations that have a handler invoked and not settled.
Suspended == {c \in Calls : AliveHandlers(c) # {}}

\* C21: with executeHook calls interleaved, the shared state holds for every
\* key the value of the write executed last, whichever call made it, and the
\* private state of an extension the value its last setState wrote; the
\* counter the handlers increment never exceeds the number of increments.
C21_LastWriteWins ==
  /\ DOMAIN sharedState = DOMAIN written
  /\ \A k \in DOMAIN written : sharedState[k] = written[k].value
  /\ "x" \in DOMAIN sharedState => sharedState["x"] <= WritesUpTo(MaxCalls)
  /\ lastOp.op = "setSharedState" => sharedState[lastOp.key] = lastOp.value
  /\ (lastOp.op = "setState" /\ lastOp.result = "returned") =>
       <<"n", lastOp.modifier.value>> \in heap[state[lastOp.ctx.owner]]

\* Two calls have a handler suspended at the same time, each has incremented
\* the counter once, and the counter is 1: an update was lost.
C21_Witness ==
  /\ Cardinality(Suspended) >= 2
  /\ Cardinality(call[1].wrote) = 1
  /\ Cardinality(call[2].wrote) = 1
  /\ sharedState["x"] = 1
  /\ WritesUpTo(MaxCalls) = 2


\* ------------------------------------------------------- strings and headers

\* A string is the sequence of its characters.
\* String.prototype.toLowerCase, on one character (ASCII).
LowerChar(ch) ==
  CASE ch = "A" -> "a"
    [] ch = "B" -> "b"
    [] ch = "C" -> "c"
    [] ch = "D" -> "d"
    [] ch = "E" -> "e"
    [] ch = "F" -> "f"
    [] ch = "G" -> "g"
    [] ch = "H" -> "h"
    [] ch = "I" -> "i"
    [] ch = "J" -> "j"
    [] ch = "K" -> "k"
    [] ch = "L" -> "l"
    [] ch = "M" -> "m"
    [] ch = "N" -> "n"
    [] ch = "O" -> "o"
    [] ch = "P" -> "p"
    [] ch = "Q" -> "q"
    [] ch = "R" -> "r"
    [] ch = "S" -> "s"
    [] ch = "T" -> "t"
    [] ch = "U" -> "u"
    [] ch = "V" -> "v"
    [] ch = "W" -> "w"
    [] ch = "X" -> "x"
    [] ch = "Y" -> "y"
    [] ch = "Z" -> "z"
    [] OTHER -> ch

toLowerCase(s) == [i \in DOMAIN s |-> LowerChar(s[i])]

\* An object literal of headers is the sequence of its [key, value] properties
\* in insertion order, its keys distinct as written (case matters). A Headers
\* object is the sequence of its [name, value] entries, its names lower-cased.

\* The index of the property `key` of an object, 0 when it has none.
IndexOfKey(obj, key) ==
  IF \E i \in DOMAIN obj : obj[i].key = key
  THEN CHOOSE i \in DOMAIN obj : obj[i].key = key
  ELSE 0

\* obj[key] = value
SetProperty(obj, key, value) ==
  IF IndexOfKey(obj, key) = 0
  THEN Append(obj, [key |-> key, value |-> value])
  ELSE [obj EXCEPT ![IndexOfKey(obj, key)].value = value]

\* {...a, ...b}
RECURSIVE Spread(_, _)
Spread(a, b) ==
  IF b = <<>> THEN a
  ELSE Spread(SetProperty(a, Head(b).key, Head(b).value), Tail(b))

\* String.prototype.trim, for strings whose only whitespace is the space.
RECURSIVE TrimStart(_)
TrimStart(s) ==
  IF s # <<>> /\ Head(s) = " " THEN TrimStart(Tail(s)) ELSE s

RECURSIVE TrimEnd(_)
TrimEnd(s) ==
  IF s # <<>> /\ s[Len(s)] = " " THEN TrimEnd(SubSeq(s, 1, Len(s) - 1)) ELSE s

trim(s) == TrimEnd(TrimStart(s))

\* The Headers class normalizes a value it is given: leading and trailing
\* whitespace removed.
Normalize(value) == trim(value)

\* Headers.prototype.get: the value of the header, {} for null.
HeadersGet(h, name) ==
  {h[i].value : i \in {j \in DOMAIN h : h[j].key = toLowerCase(name)}}

HeadersHas(h, name) == HeadersGet(h, name) # {}

\* Headers.prototype.set
HeadersSet(h, name, value) == SetProperty(h, toLowerCase(name), Normalize(value))

\* Headers.prototype.append: a header the object already has gets the new
\* value after its own, separated by ", ".
HeadersAppend(h, name, value) ==
  LET i == IndexOfKey(h, toLowerCase(name))
  IN IF i = 0
     THEN Append(h, [key |-> toLowerCase(name), value |-> Normalize(value)])
     ELSE [h EXCEPT ![i].value = h[i].value \o <<",", " ">> \o Normalize(value)]

\* new Headers(init), init an object literal: every property appended.
RECURSIVE FillHeaders(_, _)
FillHeaders(h, init) ==
  IF init = <<>> THEN h
  ELSE FillHeaders(HeadersAppend(h, Head(init).key, Head(init).value), Tail(init))

NewHeaders(init) == FillHeaders(<<>>, init)

\* ------------------------------------------------------- the client's request

\* The values of a request body: undefined, null, a string (with whether
\* JSON.parse accepts it) and a plain object (with its JSON.stringify text).
UndefinedBody == [type |-> "undefined"]
NullBody == [type |-> "null"]
StringBody(text, json) == [type |-> "string", text |-> text, json |-> json]
ObjectBody(json) == [type |-> "object", json |-> json]

\* JSON.stringify of a plain object: a string, which JSON.parse accepts.
JSONStringify(body) == StringBody(body.json, TRUE)

HttpMethods == {"GET", "POST", "PUT", "PATCH", "DELETE", "HEAD", "OPTIONS"}

\* Every method can contain a body.
EveryMethodCanContainBody(method) == TRUE

methodCanContainBody(method) == method \in {"POST", "PUT", "PATCH", "DELETE"}

canHaveBody(method) == method \in {"POST", "PUT", "PATCH", "DELETE"}

\* The Content-Type set for a string body when the headers have none.
ContentTypeOf(body) ==
  IF body.json THEN <<"a", "p", "p", "l", "i", "c", "a", "t", "i", "o", "n", "/", "j", "s", "o", "n">> ELSE <<"t", "e", "x", "t", "/", "p", "l", "a", "i", "n">>

\* processRequestBody(headers, body) of makeRequest: the body for fetch and
\* the headers, on which it sets Content-Type.
processRequestBody(headers, body) ==
  IF body.type \in {"null", "undefined"}
  THEN [body |-> UndefinedBody, headers |-> headers]
  ELSE IF body.type = "object"
  THEN [body |-> JSONStringify(body),
        headers |-> IF HeadersHas(headers, <<"C", "o", "n", "t", "e", "n", "t", "-", "T", "y", "p", "e">>) THEN headers
                    ELSE HeadersSet(headers, <<"C", "o", "n", "t", "e", "n", "t", "-", "T", "y", "p", "e">>, <<"a", "p", "p", "l", "i", "c", "a", "t", "i", "o", "n", "/", "j", "s", "o", "n">>)]
  ELSE [body |-> body,
        headers |-> IF HeadersHas(headers, <<"C", "o", "n", "t", "e", "n", "t", "-", "T", "y", "p", "e">>) THEN headers
                    ELSE HeadersSet(headers, <<"C", "o", "n", "t", "e", "n", "t", "-", "T", "y", "p", "e">>, ContentTypeOf(body))]

\* The body processing of the first request method, inline in it.
ProcessBodyInline(headers, method, body) ==
  IF canHaveBody(method) /\ body.type # "undefined"
  THEN IF body.type = "object"
       THEN [body |-> JSONStringify(body),
             headers |-> IF HeadersHas(headers, <<"C", "o", "n", "t", "e", "n", "t", "-", "T", "y", "p", "e">>) THEN headers
                         ELSE HeadersSet(headers, <<"C", "o", "n", "t", "e", "n", "t", "-", "T", "y", "p", "e">>, <<"a", "p", "p", "l", "i", "c", "a", "t", "i", "o", "n", "/", "j", "s", "o", "n">>)]
       ELSE [body |-> body,
             headers |-> IF ~HeadersHas(headers, <<"C", "o", "n", "t", "e", "n", "t", "-", "T", "y", "p", "e">>) /\ body.type = "string"
                         THEN HeadersSet(headers, <<"C", "o", "n", "t", "e", "n", "t", "-", "T", "y", "p", "e">>, ContentTypeOf(body))
                         ELSE headers]
  ELSE [body |-> UndefinedBody, headers |-> headers]

\* The body the verb methods of HttpMethodsBase hand to request: get and
\* delete pass undefined, post, put and patch their body parameter.
VerbBody(method, body) ==
  IF method \in {"GET", "DELETE"} THEN UndefinedBody ELSE body

\* The verb methods each class has.
MethodsOf(i) ==
  IF i = "part_003" THEN {"GET", "POST", "PUT", "PATCH", "DELETE"} ELSE HttpMethods

\* The timeout of the constructors: config.timeout ?? 5000
DefaultTimeout == 5000

\* config?.timeout ?? this.config.timeout, as sets: {} is undefined.
Coalesce(a, b) == IF a # {} THEN a ELSE b

\* The arguments of fetch the class i builds for a call of `method` with the
\* call config cfg: headers from the spread of both header objects, the body
\* processed, and whether `signal` is an AbortSignal of the call's controller
\* (the first request method passes the {signal, cleanup} object instead).
FetchArguments(i, method, cfg) ==
  LET headers == NewHeaders(Spread(config.headers, cfg.headers))
      processed ==
        IF i = "request" THEN ProcessBodyInline(headers, method, cfg.body)
        ELSE IF i = "makeRequest"
        THEN IF methodCanContainBody(method)
             THEN processRequestBody(headers, cfg.body)
             ELSE [body |-> UndefinedBody, headers |-> headers]
        ELSE [body |-> VerbBody(method, cfg.body), headers |-> headers]
  IN [method |-> method, url |-> cfg.url, headers |-> processed.headers,
      body |-> processed.body, signal |-> i # "request"]


\* ------------------------------------------------------------------- errors

\* new WefyError(message, options): the options' status kept on the error.
WefyError(message, status) ==
  [name |-> "WefyError", message |-> message, status |-> status]

\* new WefyTimeoutError(timeout)
WefyTimeoutError(timeout) ==
  [name |-> "WefyTimeoutError", message |-> "Request timeout after", status |-> {},
   timeout |-> timeout]

\* What fetch rejects with when its signal aborts (the combined signal of
\* createSignal is aborted without a reason: an AbortError DOMException) and
\* when the network fails (a TypeError); what response.json() throws.
AbortError == [name |-> "AbortError", message |-> "This operation was aborted", status |-> {}]
NetworkError == [name |-> "TypeError", message |-> "fetch failed", status |-> {}]
SyntaxError == [name |-> "SyntaxError", message |-> "Unexpected token", status |-> {}]

\* error instanceof WefyError
InstanceOfWefyError(error) ==
  error.name \in {"WefyError", "WefyTimeoutError", "WefyParseError"}

\* The catch block of both request methods of wefy.ts: a WefyError rethrown,
\* any other Error wrapped into a WefyError with its message.
CatchBlock(error) ==
  IF InstanceOfWefyError(error) THEN error ELSE WefyError(error.message, {})

\* clearTimeout(timeoutId): a timer that has fired stays fired.
ClearTimeout(rec) ==
  [rec EXCEPT !.timer = IF rec.timer = "armed" THEN "cleared" ELSE rec.timer]

\* response.ok as always true.
AlwaysOk(response) == TRUE

\* response.ok
ResponseOk(response) == response.status >= 200 /\ response.status <= 299

\* ---------------------------------------------------- the missing response.ts

\* WefyResponse.auto() on a Response: a non-2xx status is a RequestError
\* carrying the status.
RequestError(response) ==
  [name |-> "WefyError", message |-> "Request failed", status |-> {response.status}]

\* WefyResponse.auto() when decoding the body fails.
WefyParseError == [name |-> "WefyParseError", message |-> "Failed to parse", status |-> {}]

\* ------------------------------------------------------------ client actions

Impls == {"request", "makeRequest", "part_003"}

\* this.config after the constructor, for the config handed to Wefy.create.
Create(given) ==
  [headers |-> given.headers, timeout |-> Coalesce(given.timeout, {DefaultTimeout})]

\* The promise of the activation settles.
Resolve(rec, value) ==
  [rec EXCEPT !.pc = "done", !.result = "resolved", !.value = {value}]

Reject(rec, error) ==
  [rec EXCEPT !.pc = "done", !.result = "rejected", !.value = {error}]

\* An endpoint from which no URL can be built on the client's base url (a
\* host without a path): new URL("//", base) throws for its empty host.
UnbuildableUrl == "//"

\* sanitizeUrl(this.config.baseUrl, endpoint, ...): the URL as the key the
\* cache and fetch get, or {} when the construction throws.
sanitizeUrl(endpoint) == IF endpoint = UnbuildableUrl THEN {} ELSE {endpoint}

\* What sanitizeUrl throws from its catch block.
ConstructUrlError ==
  [name |-> "Error", message |-> "Failed to construct URL", status |-> {}]

\* The catch block of request() of part_003 for an error that is neither a
\* WefyTimeoutError nor a WefyParseError.
RequestFailed(error) == [name |-> "Error", message |-> "Request failed", status |-> {}]

\* A caller invokes the verb method `method` with the call config cfg: the
\* code up to the first await. The timer is armed first. Both request
\* methods of wefy.ts build the URL before their try block, so a failure of
\* sanitizeUrl leaves through neither catch nor finally; part_003 builds it
\* inside. The first request method answers a GET of a cached url from
\* this.cache, before its try block as well; part_003 leaves request()
\* through its finally, which clears the timer, with the fetch pending.
ClientCall(c, method, cfg) ==
  /\ impl # "none"
  /\ req[c].pc = "idle"
  /\ method \in MethodsOf(impl)
  /\ LET rec == [req[c] EXCEPT !.method = method, !.url = cfg.url, !.given = {cfg},
                               !.timeoutMs = Coalesce(cfg.timeout, config.timeout),
                               !.timer = "armed"]
     IN IF sanitizeUrl(cfg.url) = {}
        THEN req' = [req EXCEPT ![c] =
                       IF impl = "part_003"
                       THEN ClearTimeout(Reject(rec, RequestFailed(ConstructUrlError)))
                       ELSE Reject(rec, ConstructUrlError)]
        ELSE IF impl = "request" /\ method = "GET" /\ cfg.url \in DOMAIN cache
        THEN req' = [req EXCEPT ![c] =
                       Resolve(rec, [kind |-> "response", response |-> cache[cfg.url]])]
        ELSE LET sent == [rec EXCEPT !.request = {FetchArguments(impl, method, cfg)},
                                     !.log = Append(rec.log, "send"),
                                     !.pc = "awaitFetch"]
             IN req' = [req EXCEPT ![c] =
                          IF impl = "part_003" THEN ClearTimeout(sent) ELSE sent]
  /\ UNCHANGED <<extensions, initialized, call, aborted, storeVars, regVars,
                 impl, config, cache, merged>>

\* timeoutMs have passed since the call: the timer, if still armed, runs its
\* callback, which aborts the call's controller.
TimeoutElapses(c) ==
  /\ req[c].pc # "idle"
  /\ ~req[c].elapsed
  /\ req' = [req EXCEPT ![c].elapsed = TRUE,
                        ![c].pendingAtElapse = (req[c].pc = "awaitFetch"),
                        ![c].timer = IF req[c].timer = "armed" THEN "fired" ELSE req[c].timer,
                        ![c].signalAborted = (req[c].timer = "armed")]
  /\ UNCHANGED <<extensions, initialized, call, aborted, storeVars, regVars,
                 impl, config, cache, merged>>

\* The statuses of the responses of the Transport.
Statuses == {200, 204, 403, 500}

\* Every way a fetch settles.
TransportResults ==
  {[kind |-> "abort"], [kind |-> "network"]}
    \cup {[kind |-> "response", status |-> s] : s \in Statuses}

\* How a pending fetch can settle: with a Response, or rejected by the
\* network; once a signal it was given has aborted, rejected by the abort.
TransportOutcomes(rec) ==
  IF rec.signalAborted /\ \E r \in rec.request : r.signal
  THEN {[kind |-> "abort"]}
  ELSE TransportResults \ {[kind |-> "abort"]}

\* The fetch of activation c settles and the code runs up to its next await.
TransportSettles(c, o) ==
  /\ req[c].pc = "awaitFetch"
  /\ o \in TransportOutcomes(req[c])
  /\ LET rec == req[c]
         response == [status |-> o.status, of |-> c]
         got == [rec EXCEPT !.response = {response}]
     IN IF impl = "part_003"
        THEN /\ req' = [req EXCEPT ![c] =
                  IF o.kind = "abort" THEN Reject(rec, WefyTimeoutError(rec.timeoutMs))
                  ELSE IF o.kind = "network" THEN Reject(rec, NetworkError)
                  ELSE IF ~ResponseOk(response) THEN Reject(got, RequestError(response))
                  ELSE [got EXCEPT !.pc = "decoding"]]
             /\ UNCHANGED cache
        ELSE IF o.kind # "response"
        THEN /\ req' = [req EXCEPT ![c] =
                  ClearTimeout(Reject(rec,
                    CatchBlock(IF o.kind = "abort" THEN AbortError ELSE NetworkError)))]
             /\ UNCHANGED cache
        ELSE IF ~ResponseOk(response)
        THEN /\ req' = [req EXCEPT ![c] = [got EXCEPT !.pc = "parseError"]]
             /\ UNCHANGED cache
        ELSE IF impl = "request"
        THEN /\ req' = [req EXCEPT ![c] = [got EXCEPT !.pc = "decoding"]]
             /\ cache' = IF rec.method = "GET"
                         THEN [u \in DOMAIN cache \cup {rec.url} |->
                                 IF u = rec.url THEN response ELSE cache[u]]
                         ELSE cache
        ELSE /\ req' = [req EXCEPT ![c] = ClearTimeout([got EXCEPT !.pc = "decoding"])]
             /\ UNCHANGED cache
  /\ UNCHANGED <<extensions, initialized, call, aborted, storeVars, regVars,
                 impl, config, merged>>

\* The body of a non-2xx response has been read for the message (a failure
\* of the read is caught): the WefyError with the status is thrown, rethrown
\* by the catch block, and the finally block clears the timer.
ErrorParsed(c) ==
  /\ req[c].pc = "parseError"
  /\ LET rec == req[c]
         response == CHOOSE r \in rec.response : TRUE
     IN req' = [req EXCEPT ![c] =
                  ClearTimeout(Reject(rec,
                    CatchBlock(WefyError("Request failed", {response.status}))))]
  /\ UNCHANGED <<extensions, initialized, call, aborted, storeVars, regVars,
                 impl, config, cache, merged>>

\* Every way the decoding settles.
DecodeResults == {"undefined", "data", "throws"}

\* What decoding the body can do: HEAD (and OPTIONS in the first class, a 204
\* in the second) is answered undefined without reading the body; otherwise
\* the body is read, and reading it yields the data or throws.
DecodeOutcomes(rec) ==
  LET response == CHOOSE r \in rec.response : TRUE
  IN IF \/ rec.method = "HEAD" /\ impl \in {"request", "makeRequest"}
        \/ rec.method = "OPTIONS" /\ impl = "request"
        \/ response.status = 204 /\ impl = "makeRequest"
     THEN {"undefined"}
     ELSE {"data", "throws"}

\* The decoding of the response of activation c settles. The first request
\* method awaits it inside its try; makeRequest returns its promise, so its
\* finally block has already run and its catch block does not see a failure.
DecodeSettles(c, o) ==
  /\ req[c].pc = "decoding"
  /\ o \in DecodeOutcomes(req[c])
  /\ LET rec == req[c]
         response == CHOOSE r \in rec.response : TRUE
         read == IF o = "undefined" THEN rec
                 ELSE [rec EXCEPT !.log = Append(rec.log, "decode")]
         settled ==
           IF o = "undefined" THEN Resolve(read, [kind |-> "undefined"])
           ELSE IF o = "data" THEN Resolve(read, [kind |-> "data", of |-> response.of])
           ELSE IF impl = "request" THEN Reject(read, CatchBlock(SyntaxError))
           ELSE IF impl = "makeRequest" THEN Reject(read, SyntaxError)
           ELSE Reject(read, WefyParseError)
     IN req' = [req EXCEPT ![c] =
                  IF impl = "request" THEN ClearTimeout(settled) ELSE settled]
  /\ UNCHANGED <<extensions, initialized, call, aborted, storeVars, regVars,
                 impl, config, cache, merged>>

\* The urls of the calls.
Urls == {"/a", "/b"}

\* A call config without headers, body or timeout of its own.
PlainConfig(url) ==
  [url |-> url, headers |-> <<>>, body |-> UndefinedBody, timeout |-> {}]

\* The plain call configs for the urls.
PlainConfigs(urls) == {PlainConfig(url) : url \in urls}

\* A client of one of the three classes, created with or without a timeout.
InitClient ==
  /\ extensions = <<>>
  /\ initialized = FALSE
  /\ call = [c \in Calls |-> IdleCall]
  /\ aborted = [c \in Calls |-> FALSE]
  /\ Constructed(extensions)
  /\ impl \in Impls
  /\ config \in {Create([headers |-> <<>>, timeout |-> t]) : t \in {{}, {3000}}}
  /\ req = [c \in Calls |-> IdleRequest]
  /\ cache = [u \in {} |-> 0]
  /\ merged = NotMerged

\* One call on the client, of any verb, with the timeout elapsing at any
\* moment after the call.
NextPipeline ==
  \/ \E method \in HttpMethods, cfg \in PlainConfigs(Urls) : ClientCall(1, method, cfg)
  \/ TimeoutElapses(1)
  \/ \E o \in TransportResults : TransportSettles(1, o)
  \/ ErrorParsed(1)
  \/ \E o \in DecodeResults : DecodeSettles(1, o)

SpecPipeline == InitClient /\ [][NextPipeline]_vars

\* Calls of GET and POST on the same client, one after another or at once.
NextCache ==
  \E c \in Calls :
    \/ \E method \in {"GET", "POST"}, cfg \in PlainConfigs(Urls) : ClientCall(c, method, cfg)
    \/ \E o \in TransportResults : TransportSettles(c, o)
    \/ ErrorParsed(c)
    \/ \E o \in DecodeResults : DecodeSettles(c, o)

SpecCache == InitClient /\ [][NextCache]_vars


\* ---- C22

\* The phases of a call in the order of the lifecycle.
Lifecycle ==
  <<"beforeRequest", "onRequest", "send", "beforeResponse", "decode", "onResponse",
    "afterSuccess", "afterRequest">>

\* How many times the phase occurs in the log of activation c.
Occurrences(c, phase) ==
  Cardinality({k \in DOMAIN req[c].log : req[c].log[k] = phase})

\* C22: a call that has resolved has executed the eight phases of the
\* lifecycle exactly once each, in the lifecycle's order.
C22_PhasesInOrder ==
  \A c \in Calls : req[c].result = "resolved" => req[c].log = Lifecycle

\* ---- C23

\* C23: a call that has settled has executed afterRequest exactly once, as
\* its last phase.
C23_AfterRequestOnce ==
  \A c \in Calls :
    req[c].pc = "done" =>
      /\ Occurrences(c, "afterRequest") = 1
      /\ req[c].log[Len(req[c].log)] = "afterRequest"

\* ---- C24

\* The send of activation c threw: the call is rejected without a Response.
SendThrew(c) ==
  /\ req[c].result = "rejected"
  /\ req[c].response = {}
  /\ Occurrences(c, "send") = 1

\* The decoding of the body of activation c threw.
DecodeThrew(c) ==
  /\ req[c].result = "rejected"
  /\ Occurrences(c, "decode") = 1

\* C24: a call rejected because send or decode threw has executed onError
\* and then afterRequest, and neither onResponse nor afterSuccess.
C24_FailureRunsOnError ==
  \A c \in Calls :
    (SendThrew(c) \/ DecodeThrew(c)) =>
      /\ Occurrences(c, "onResponse") = 0
      /\ Occurrences(c, "afterSuccess") = 0
      /\ Occurrences(c, "onError") = 1
      /\ Occurrences(c, "afterRequest") = 1

\* ---- C25

\* The fetch of activation c was given a signal and that signal has aborted.
TransportAborted(c) ==
  /\ req[c].signalAborted
  /\ \E r \in req[c].request : r.signal

\* C25: a call whose send was pending when its timeout elapsed has its fetch
\* aborted, and once settled it is rejected with a timeout error and has
\* executed afterRequest.
C25_TimeoutAborts ==
  \A c \in Calls :
    req[c].pendingAtElapse =>
      /\ TransportAborted(c)
      /\ req[c].pc = "done" =>
           /\ req[c].result = "rejected"
           /\ \A e \in req[c].value : e.name = "WefyTimeoutError"
           /\ Occurrences(c, "afterRequest") = 1

\* ---- C26

\* The classes of wefy.ts, which make the error of a non-2xx response
\* themselves.
WefyTsImpls == {"request", "makeRequest"}

ClientHeaderObjects ==
  {<<>>,
   <<[key |-> <<"X", "-", "C", "u", "s", "t", "o", "m">>, value |-> <<"o", "r", "i", "g", "i", "n", "a", "l">>]>>,
   <<[key |-> <<"X", "-", "C", "u", "s", "t", "o", "m">>, value |-> <<"o", "r", "i", "g", "i", "n", "a", "l">>], [key |-> <<"C", "o", "n", "t", "e", "n", "t", "-", "T", "y", "p", "e">>, value |-> <<"t", "e", "x", "t", "/", "c", "s", "s">>]>>}

CallHeaderObjects ==
  {<<>>,
   <<[key |-> <<"X", "-", "C", "u", "s", "t", "o", "m">>, value |-> <<"o", "v", "e", "r", "r", "i", "d", "e">>]>>,
   <<[key |-> <<"x", "-", "c", "u", "s", "t", "o", "m">>, value |-> <<"o", "v", "e", "r", "r", "i", "d", "e">>]>>,
   <<[key |-> <<"X", "-", "O", "t", "h", "e", "r">>, value |-> <<"o", "t", "h", "e", "r">>]>>}

\* The bodies of the call configs.
Bodies ==
  {UndefinedBody, NullBody, StringBody(<<"t", "e", "s", "t">>, FALSE), StringBody(<<>>, FALSE),
   StringBody(<<"{", "}">>, TRUE), ObjectBody(<<"{", "\"", "a", "\"", ":", "1", "}">>)}

\* The timeouts of the configs: undefined or a number.
Timeouts == {{}, {100}}

CallConfigs ==
  {[url |-> "/a", headers |-> h, body |-> b, timeout |-> t] :
     h \in CallHeaderObjects, b \in Bodies, t \in Timeouts}

\* A client of one of the three classes, created with headers or without.
InitBuild ==
  /\ extensions = <<>>
  /\ initialized = FALSE
  /\ call = [c \in Calls |-> IdleCall]
  /\ aborted = [c \in Calls |-> FALSE]
  /\ Constructed(extensions)
  /\ impl \in Impls
  /\ config \in {Create([headers |-> h, timeout |-> t]) :
                   h \in ClientHeaderObjects, t \in Timeouts}
  /\ req = [c \in Calls |-> IdleRequest]
  /\ cache = [u \in {} |-> 0]
  /\ merged = NotMerged

\* One call of any verb with any call config, up to the call of fetch.
NextBuild ==
  \E method \in HttpMethods, cfg \in CallConfigs : ClientCall(1, method, cfg)

SpecBuild == InitBuild /\ [][NextBuild]_vars

\* ---- C27

\* C27: a header of the call config whose name, letter case aside, is also a
\* name of the client config's headers is sent with the value of the call
\* config alone.
C27_CallHeaderAlone ==
  \A c \in Calls :
    \A r \in req[c].request, cfg \in req[c].given :
      \A i \in DOMAIN cfg.headers :
        (\E j \in DOMAIN config.headers :
           toLowerCase(config.headers[j].key) = toLowerCase(cfg.headers[i].key)) =>
          HeadersGet(r.headers, cfg.headers[i].key) = {cfg.headers[i].value}

\* ---- C29

C28_NoResponseCache ==
  \A c \in Calls :
    req[c].result = "resolved" =>
      /\ Occurrences(c, "send") = 1
      /\ req[c].value \subseteq {[kind |-> "data", of |-> c], [kind |-> "undefined"]}


\* ------------------------------------------------------------- mergeHeaders

\* String.prototype.split(separator), the separator one character.
RECURSIVE Split(_, _)
Split(s, separator) ==
  IF \E i \in DOMAIN s : s[i] = separator
  THEN LET i == CHOOSE k \in DOMAIN s :
                  s[k] = separator /\ \A j \in 1..(k - 1) : s[j] # separator
       IN <<SubSeq(s, 1, i - 1)>> \o Split(SubSeq(s, i + 1, Len(s)), separator)
  ELSE <<s>>

\* String.prototype.split(separator, limit): the first `limit` pieces.
SplitLimit(s, separator, limit) ==
  LET pieces == Split(s, separator)
  IN SubSeq(pieces, 1, IF Len(pieces) < limit THEN Len(pieces) ELSE limit)

\* Array.prototype.join
RECURSIVE Join(_, _)
Join(pieces, separator) ==
  IF pieces = <<>> THEN <<>>
  ELSE IF Len(pieces) = 1 THEN pieces[1]
  ELSE pieces[1] \o separator \o Join(Tail(pieces), separator)

\* String.prototype.startsWith
startsWith(s, prefix) ==
  Len(s) >= Len(prefix) /\ SubSeq(s, 1, Len(prefix)) = prefix

\* Array.prototype.map(str => str.trim()).filter(Boolean)
RECURSIVE TrimmedNonEmpty(_)
TrimmedNonEmpty(pieces) ==
  IF pieces = <<>> THEN <<>>
  ELSE IF trim(Head(pieces)) = <<>> THEN TrimmedNonEmpty(Tail(pieces))
  ELSE <<trim(Head(pieces))>> \o TrimmedNonEmpty(Tail(pieces))

IsDigit(ch) == ch \in {"0", "1", "2", "3", "4", "5", "6", "7", "8", "9"}

DigitValue(ch) ==
  CASE ch = "0" -> 0
    [] ch = "1" -> 1
    [] ch = "2" -> 2
    [] ch = "3" -> 3
    [] ch = "4" -> 4
    [] ch = "5" -> 5
    [] ch = "6" -> 6
    [] ch = "7" -> 7
    [] ch = "8" -> 8
    [] ch = "9" -> 9

\* The longest prefix of s made of digits.
RECURSIVE DigitsPrefix(_)
DigitsPrefix(s) ==
  IF s # <<>> /\ IsDigit(Head(s)) THEN <<Head(s)>> \o DigitsPrefix(Tail(s)) ELSE <<>>

RECURSIVE DigitsValue(_)
DigitsValue(ds) ==
  IF ds = <<>> THEN 0 ELSE DigitsValue(SubSeq(ds, 1, Len(ds) - 1)) * 10 + DigitValue(ds[Len(ds)])

\* Numbers are kept in thousandths: the digits after the point, the first
\* three of them.
Thousandths(ds) ==
  (IF Len(ds) >= 1 THEN DigitValue(ds[1]) * 100 ELSE 0)
  + (IF Len(ds) >= 2 THEN DigitValue(ds[2]) * 10 ELSE 0)
  + (IF Len(ds) >= 3 THEN DigitValue(ds[3]) ELSE 0)

\* parseFloat of a string without exponent: {} is NaN, {n} the number n/1000.
parseFloat(s) ==
  LET t == TrimStart(s)
      negative == t # <<>> /\ Head(t) = "-"
      u == IF t # <<>> /\ Head(t) \in {"-", "+"} THEN Tail(t) ELSE t
      whole == DigitsPrefix(u)
      rest == SubSeq(u, Len(whole) + 1, Len(u))
      fraction == IF rest # <<>> /\ Head(rest) = "." THEN DigitsPrefix(Tail(rest)) ELSE <<>>
      magnitude == DigitsValue(whole) * 1000 + Thousandths(fraction)
  IN IF whole = <<>> /\ fraction = <<>> THEN {}
     ELSE {IF negative THEN 0 - magnitude ELSE magnitude}

\* HEADER_STRATEGIES
OverrideHeaders ==
  {<<"a", "u", "t", "h", "o", "r", "i", "z", "a", "t", "i", "o", "n">>, <<"c", "o", "n", "t", "e", "n", "t", "-", "t", "y", "p", "e">>, <<"c", "o", "n", "t", "e", "n", "t", "-", "l", "e", "n", "g", "t", "h">>, <<"c", "o", "n", "t", "e", "n", "t", "-", "s", "e", "c", "u", "r", "i", "t", "y", "-", "p", "o", "l", "i", "c", "y">>,
   <<"s", "t", "r", "i", "c", "t", "-", "t", "r", "a", "n", "s", "p", "o", "r", "t", "-", "s", "e", "c", "u", "r", "i", "t", "y">>, <<"x", "-", "f", "r", "a", "m", "e", "-", "o", "p", "t", "i", "o", "n", "s">>, <<"x", "-", "c", "o", "n", "t", "e", "n", "t", "-", "t", "y", "p", "e", "-", "o", "p", "t", "i", "o", "n", "s">>}

MultiValueHeaders == {<<"s", "e", "t", "-", "c", "o", "o", "k", "i", "e">>, <<"w", "w", "w", "-", "a", "u", "t", "h", "e", "n", "t", "i", "c", "a", "t", "e">>, <<"p", "r", "o", "x", "y", "-", "a", "u", "t", "h", "e", "n", "t", "i", "c", "a", "t", "e">>}

MergeHeaders ==
  {<<"a", "c", "c", "e", "p", "t">>, <<"a", "c", "c", "e", "p", "t", "-", "e", "n", "c", "o", "d", "i", "n", "g">>, <<"a", "c", "c", "e", "p", "t", "-", "l", "a", "n", "g", "u", "a", "g", "e">>, <<"c", "a", "c", "h", "e", "-", "c", "o", "n", "t", "r", "o", "l">>, <<"p", "r", "a", "g", "m", "a">>, <<"v", "a", "r", "y">>,
   <<"w", "a", "r", "n", "i", "n", "g">>, <<"c", "o", "o", "k", "i", "e">>, <<"l", "i", "n", "k">>, <<"a", "c", "c", "e", "s", "s", "-", "c", "o", "n", "t", "r", "o", "l", "-", "a", "l", "l", "o", "w", "-", "h", "e", "a", "d", "e", "r", "s">>,
   <<"a", "c", "c", "e", "s", "s", "-", "c", "o", "n", "t", "r", "o", "l", "-", "a", "l", "l", "o", "w", "-", "m", "e", "t", "h", "o", "d", "s">>, <<"a", "c", "c", "e", "s", "s", "-", "c", "o", "n", "t", "r", "o", "l", "-", "e", "x", "p", "o", "s", "e", "-", "h", "e", "a", "d", "e", "r", "s">>}

getStrategy(key) ==
  IF key \in OverrideHeaders THEN "override"
  ELSE IF key \in MultiValueHeaders THEN "multiValue"
  ELSE IF key \in MergeHeaders THEN "merge"
  ELSE "override"

\* PARSERS.cookie: parse. A pair without "=" has the value undefined ({}).
RECURSIVE CookieEntries(_)
CookieEntries(pairs) ==
  IF pairs = <<>> THEN <<>>
  ELSE LET pair == SplitLimit(trim(Head(pairs)), "=", 2)
       IN IF pair[1] = <<>> THEN CookieEntries(Tail(pairs))
          ELSE <<[key |-> pair[1],
                  value |-> IF Len(pair) = 1 THEN {} ELSE {pair[2]}]>>
               \o CookieEntries(Tail(pairs))

\* Object.fromEntries(...): a later entry of a key replaces the value.
CookieParse(string) == Spread(<<>>, CookieEntries(Split(string, ";")))

\* `${key}=${value}`
RECURSIVE CookiePairs(_)
CookiePairs(entries) ==
  IF entries = <<>> THEN <<>>
  ELSE <<Head(entries).key \o <<"=">>
          \o (IF Head(entries).value = {} THEN <<"u", "n", "d", "e", "f", "i", "n", "e", "d">>
              ELSE CHOOSE v \in Head(entries).value : TRUE)>>
       \o CookiePairs(Tail(entries))

ParseCookie(base, request) ==
  Join(CookiePairs(Spread(CookieParse(base), CookieParse(request))), <<";", " ">>)

\* PARSERS.accept: the first of the params whose trimmed text starts with "q=".
RECURSIVE FindQParam(_)
FindQParam(params) ==
  IF params = <<>> THEN {}
  ELSE IF startsWith(trim(Head(params)), <<"q", "=">>) THEN {Head(params)}
  ELSE FindQParam(Tail(params))

\* The quality of an item, in thousandths: parseFloat(qParam.split('=')[1]),
\* 1 without a q parameter or when that is NaN.
QualityOf(item) ==
  LET qParam == FindQParam(Tail(Split(item, ";")))
  IN IF qParam = {} THEN 1000
     ELSE LET q == parseFloat(Split(CHOOSE x \in qParam : TRUE, "=")[2])
          IN IF q = {} THEN 1000 ELSE CHOOSE n \in q : TRUE

RECURSIVE AcceptEntries(_)
AcceptEntries(items) ==
  IF items = <<>> THEN <<>>
  ELSE <<[key |-> trim(Split(Head(items), ";")[1]),
          value |-> [quality |-> QualityOf(Head(items)), original |-> Head(items)]]>>
       \o AcceptEntries(Tail(items))

\* new Map(entries): a later entry of a key replaces the value in place.
AcceptParse(string) ==
  Spread(<<>>, AcceptEntries(TrimmedNonEmpty(Split(string, ","))))

\* Array.prototype.sort by descending quality, stable: the entry put after
\* the sorted entries that do not have a smaller quality.
InsertByQuality(sorted, entry) ==
  LET after == {k \in DOMAIN sorted : sorted[k].value.quality >= entry.value.quality}
      at == IF after = {} THEN 0 ELSE CHOOSE k \in after : \A j \in after : j <= k
  IN SubSeq(sorted, 1, at) \o <<entry>> \o SubSeq(sorted, at + 1, Len(sorted))

\* The entries left in the order of the Map.
Unsorted(entries) == entries

RECURSIVE SortByQuality(_)
SortByQuality(entries) ==
  IF entries = <<>> THEN <<>>
  ELSE InsertByQuality(SortByQuality(SubSeq(entries, 1, Len(entries) - 1)),
                       entries[Len(entries)])

ParseAccept(base, request) ==
  LET sorted == SortByQuality(Spread(AcceptParse(base), AcceptParse(request)))
  IN Join([k \in DOMAIN sorted |-> sorted[k].value.original], <<",", " ">>)

\* PARSERS.default: the values not seen before, letter case aside.
\* The filter that lets every value through.
Unfiltered(values, seen) == values

RECURSIVE Unseen(_, _)
Unseen(values, seen) ==
  IF values = <<>> THEN <<>>
  ELSE IF toLowerCase(Head(values)) \in seen THEN Unseen(Tail(values), seen)
  ELSE <<Head(values)>> \o Unseen(Tail(values), seen \cup {toLowerCase(Head(values))})

ParseDefault(base, request) ==
  Join(Unseen(TrimmedNonEmpty(Split(base, ",")) \o TrimmedNonEmpty(Split(request, ",")),
              {}),
       <<",", " ">>)

mergeValues(base, request, key) ==
  IF key = <<"c", "o", "o", "k", "i", "e">> THEN ParseCookie(base, request)
  ELSE IF startsWith(key, <<"a", "c", "c", "e", "p", "t">>) THEN ParseAccept(base, request)
  ELSE ParseDefault(base, request)

\* The keys of a Headers object outside `seen`, in its order.
RECURSIVE KeysNotIn(_, _)
KeysNotIn(h, seen) ==
  IF h = <<>> THEN <<>>
  ELSE IF Head(h).key \in seen THEN KeysNotIn(Tail(h), seen)
  ELSE <<Head(h).key>> \o KeysNotIn(Tail(h), seen)

\* allKeys: the names of base, then those of request that base has not.
AllKeys(base, request) ==
  KeysNotIn(base, {}) \o KeysNotIn(request, {base[i].key : i \in DOMAIN base})

\* A value of Headers.get as a condition: null and "" are falsy.
Truthy(value) == value # {} /\ value # {<<>>}

\* The body of allKeys.forEach for the name lowerKey.
MergeKey(result, base, request, lowerKey) ==
  LET baseValue == HeadersGet(base, lowerKey)
      requestValue == HeadersGet(request, lowerKey)
      b == CHOOSE v \in baseValue : TRUE
      r == CHOOSE v \in requestValue : TRUE
      strategy == getStrategy(lowerKey)
  IN IF Truthy(baseValue) /\ Truthy(requestValue)
     THEN IF strategy = "override" THEN HeadersSet(result, lowerKey, r)
          ELSE IF strategy = "multiValue"
          THEN HeadersAppend(HeadersAppend(result, lowerKey, b), lowerKey, r)
          ELSE HeadersSet(result, lowerKey, mergeValues(b, r, lowerKey))
     ELSE IF Truthy(baseValue) THEN HeadersSet(result, lowerKey, b)
     ELSE IF Truthy(requestValue) THEN HeadersSet(result, lowerKey, r)
     ELSE result

RECURSIVE MergeLoop(_, _, _, _)
MergeLoop(result, base, request, keys) ==
  IF keys = <<>> THEN result
  ELSE MergeLoop(MergeKey(result, base, request, Head(keys)), base, request, Tail(keys))

\* mergeHeaders(baseHeaders, requestHeaders), both object literals.
mergeHeaders(baseHeaders, requestHeaders) ==
  LET base == NewHeaders(baseHeaders)
      request == NewHeaders(requestHeaders)
  IN MergeLoop(<<>>, base, request, AllKeys(base, request))


\* The headers of the arguments of mergeHeaders, by family: names with the
\* override strategy or unclassified, with the multiValue strategy, the cookie
\* header, names starting with accept, and the other names with the merge
\* strategy; each family with its values.
OverrideNames == {<<"A", "u", "t", "h", "o", "r", "i", "z", "a", "t", "i", "o", "n">>, <<"a", "u", "t", "h", "o", "r", "i", "z", "a", "t", "i", "o", "n">>, <<"X", "-", "C", "u", "s", "t", "o", "m">>}
OverrideValues == {<<"A">>, <<"B">>, <<>>}

MultiValueNames == {<<"S", "e", "t", "-", "C", "o", "o", "k", "i", "e">>}
MultiValueValues == {<<"A">>, <<"B">>}

CookieNames == {<<"C", "o", "o", "k", "i", "e">>}
CookieValues ==
  {<<"a", "=", "1">>, <<"a", "=", "2", ";", " ", "b", "=", "3">>, <<"b", "=", "4", ";", "a", "=", "5">>, <<"t", "=", "x", "=", "y">>, <<"=", "z", ";", " ", "a", "=", "1">>, <<"f", "l", "a", "g">>, <<";">>}

AcceptNames == {<<"A", "c", "c", "e", "p", "t">>, <<"A", "c", "c", "e", "p", "t", "-", "E", "n", "c", "o", "d", "i", "n", "g">>, <<"a", "c", "c", "e", "p", "t", "-", "l", "a", "n", "g", "u", "a", "g", "e">>, <<"A", "c", "c", "e", "p", "t", "-", "C", "h", "a", "r", "s", "e", "t">>}
AcceptValues ==
  {<<"t", "e", "x", "t", "/", "h", "t", "m", "l", ";", "q", "=", "0", ".", "5">>, <<"a", "p", "p", "l", "i", "c", "a", "t", "i", "o", "n", "/", "j", "s", "o", "n", ";", "q", "=", "0", ".", "9">>, <<"a", "/", "b", ";", "q", "=", "0", ".", "9", ",", " ", "t", "e", "x", "t", "/", "h", "t", "m", "l">>,
   <<"a", "/", "b", ";", " ", "q", "=", "z", "z", ",", " ", "c", "/", "d", ";", "q", "=", "0", ".", "2", "5">>, <<",">>}

ListNames == {<<"V", "a", "r", "y">>, <<"c", "a", "c", "h", "e", "-", "c", "o", "n", "t", "r", "o", "l">>}
ListValues == {<<"O", "r", "i", "g", "i", "n", ",", " ", "a", "c", "c", "e", "p", "t">>, <<"A", "c", "c", "e", "p", "t", ",", " ", " ", "X">>, <<"o", "r", "i", "g", "i", "n", ",", " ", ",", " ", "Y">>, <<",">>}

HeaderNames ==
  OverrideNames \cup MultiValueNames \cup CookieNames \cup AcceptNames \cup ListNames

\* An object literal with the one header k: v.
OneHeader(k, v) == <<[key |-> k, value |-> v]>>

\* The arguments of mergeHeaders: object literals with at most one header.
HeaderObjects ==
  {<<>>}
    \cup {OneHeader(k, v) : k \in OverrideNames, v \in OverrideValues}
    \cup {OneHeader(k, v) : k \in MultiValueNames, v \in MultiValueValues}
    \cup {OneHeader(k, v) : k \in CookieNames, v \in CookieValues}
    \cup {OneHeader(k, v) : k \in AcceptNames, v \in AcceptValues}
    \cup {OneHeader(k, v) : k \in ListNames, v \in ListValues}

\* mergeHeaders is about to be called with two header objects.
InitMerge ==
  /\ extensions = <<>>
  /\ initialized = FALSE
  /\ call = [c \in Calls |-> IdleCall]
  /\ aborted = [c \in Calls |-> FALSE]
  /\ Constructed(extensions)
  /\ impl = "none"
  /\ config = [headers |-> <<>>, timeout |-> {}]
  /\ req = [c \in Calls |-> IdleRequest]
  /\ cache = [u \in {} |-> 0]
  /\ merged \in {[NotMerged EXCEPT !.baseHeaders = b, !.requestHeaders = r] :
                   b \in HeaderObjects, r \in HeaderObjects}

\* mergeHeaders(baseHeaders, requestHeaders) runs and returns.
MergeHeadersCall ==
  /\ merged.pc = "idle"
  /\ merged' = [merged EXCEPT !.pc = "done",
                              !.result = mergeHeaders(merged.baseHeaders,
                                                      merged.requestHeaders)]
  /\ UNCHANGED <<extensions, initialized, call, aborted, storeVars, regVars,
                 impl, config, req, cache>>

NextMerge == MergeHeadersCall

SpecMerge == InitMerge /\ [][NextMerge]_vars

\* ---- C30

\* The lower-cased names both arguments of the call define.
DefinedOnBothSides ==
  {k \in {toLowerCase(n) : n \in HeaderNames} :
     /\ HeadersHas(NewHeaders(merged.baseHeaders), k)
     /\ HeadersHas(NewHeaders(merged.requestHeaders), k)}

\* C30: for a header both arguments define whose strategy is override, the
\* result of mergeHeaders holds exactly the incoming value.
C30_OverrideTakesIncoming ==
  merged.pc = "done" =>
    \A k \in DefinedOnBothSides :
      getStrategy(k) = "override" =>
        HeadersGet(merged.result, k) = HeadersGet(NewHeaders(merged.requestHeaders), k)


\* ---- C31

\* The value of the header `name` in an argument of mergeHeaders, as Headers
\* reads it: {} when the argument does not define it.
Given(headers, name) == HeadersGet(NewHeaders(headers), name)

\* mergeHeaders has returned and both arguments define the header `name`.
MergedBoth(name) ==
  /\ merged.pc = "done"
  /\ Given(merged.baseHeaders, name) # {}
  /\ Given(merged.requestHeaders, name) # {}

BaseValue(name) == CHOOSE v \in Given(merged.baseHeaders, name) : TRUE

IncomingValue(name) == CHOOSE v \in Given(merged.requestHeaders, name) : TRUE

ResultValue(name) == CHOOSE v \in HeadersGet(merged.result, name) : TRUE

\* The position of the first "=" of a cookie pair, 0 when it has none.
FirstEquals(pair) ==
  IF \E i \in DOMAIN pair : pair[i] = "="
  THEN CHOOSE i \in DOMAIN pair : pair[i] = "=" /\ \A j \in 1..(i - 1) : pair[j] # "="
  ELSE 0

\* The key of a cookie pair: the text before its first "=".
PairKey(pair) ==
  IF FirstEquals(pair) = 0 THEN pair ELSE SubSeq(pair, 1, FirstEquals(pair) - 1)

\* The value of a cookie pair: all the text after its first "=".
PairValue(pair) ==
  IF FirstEquals(pair) = 0 THEN <<>> ELSE SubSeq(pair, FirstEquals(pair) + 1, Len(pair))

\* The pairs of a Cookie header value: its pieces between ";", trimmed, those
\* with an empty key dropped.
RECURSIVE KeyedPairs(_)
KeyedPairs(pieces) ==
  IF pieces = <<>> THEN <<>>
  ELSE IF PairKey(trim(Head(pieces))) = <<>> THEN KeyedPairs(Tail(pieces))
  ELSE <<trim(Head(pieces))>> \o KeyedPairs(Tail(pieces))

PairsOf(value) == KeyedPairs(Split(value, ";"))

KeysOf(value) == {PairKey(PairsOf(value)[i]) : i \in DOMAIN PairsOf(value)}

\* The values a Cookie header value gives the key.
ValuesOfKey(value, key) ==
  {PairValue(PairsOf(value)[i]) : i \in {j \in DOMAIN PairsOf(value) :
                                          PairKey(PairsOf(value)[j]) = key}}

\* C31: when both arguments define cookie, the result is key=value pairs
\* joined by "; ", with every key of either side exactly once, its value the
\* incoming side's where that side defines the key and the base side's
\* otherwise.
C31_CookieUnion ==
  MergedBoth(<<"c", "o", "o", "k", "i", "e">>) =>
    /\ HeadersGet(merged.result, <<"c", "o", "o", "k", "i", "e">>) # {}
    /\ LET b == BaseValue(<<"c", "o", "o", "k", "i", "e">>)
           r == IncomingValue(<<"c", "o", "o", "k", "i", "e">>)
           v == ResultValue(<<"c", "o", "o", "k", "i", "e">>)
       IN /\ v = Join(PairsOf(v), <<";", " ">>)
          /\ KeysOf(v) = KeysOf(b) \cup KeysOf(r)
          /\ \A i, j \in DOMAIN PairsOf(v) :
               PairKey(PairsOf(v)[i]) = PairKey(PairsOf(v)[j]) => i = j
          /\ \A k \in KeysOf(v) :
               ValuesOfKey(v, k) =
                 IF k \in KeysOf(r) THEN ValuesOfKey(r, k) ELSE ValuesOfKey(b, k)

\* ---- C40

\* C40: when both arguments define cookie, the result gives every key of the
\* incoming side the whole value that side gives it, and every other key of
\* the base side the whole value the base side gives it, "=" included.
C40_CookieValuesInFull ==
  MergedBoth(<<"c", "o", "o", "k", "i", "e">>) =>
    LET b == BaseValue(<<"c", "o", "o", "k", "i", "e">>)
        r == IncomingValue(<<"c", "o", "o", "k", "i", "e">>)
    IN \A v \in HeadersGet(merged.result, <<"c", "o", "o", "k", "i", "e">>) :
         /\ \A k \in KeysOf(r) :
              FirstEquals(CHOOSE p \in {PairsOf(r)[i] : i \in DOMAIN PairsOf(r)} :
                            PairKey(p) = k) # 0
                => ValuesOfKey(v, k) = ValuesOfKey(r, k)
         /\ \A k \in KeysOf(b) \ KeysOf(r) :
              FirstEquals(CHOOSE p \in {PairsOf(b)[i] : i \in DOMAIN PairsOf(b)} :
                            PairKey(p) = k) # 0
                => ValuesOfKey(v, k) = ValuesOfKey(b, k)


\* ---- C32

\* The items of a comma-separated header value: trimmed, blank ones skipped.
ItemsOf(value) == TrimmedNonEmpty(Split(value, ","))

\* The value of an item: its text before the first ";", trimmed.
ItemValue(item) == trim(Split(item, ";")[1])

\* The q parameters of an item: its ";"-separated parts after the first that
\* start with "q=", trimmed.
QParams(item) ==
  LET parts == Split(item, ";")
  IN {k \in 2..Len(parts) : startsWith(trim(parts[k]), <<"q", "=">>)}

\* The quality of an item in thousandths: the number of its first q
\* parameter, 1.0 when it has none or its text is no number.
ItemQuality(item) ==
  IF QParams(item) = {} THEN 1000
  ELSE LET k == CHOOSE x \in QParams(item) : \A y \in QParams(item) : x <= y
           p == trim(Split(item, ";")[k])
           q == parseFloat(SubSeq(p, 3, Len(p)))
       IN IF q = {} THEN 1000 ELSE CHOOSE n \in q : TRUE

\* The item a side gives an item value: the last of its items with it.
ItemWith(value, itemValue) ==
  LET items == ItemsOf(value)
      at == {k \in DOMAIN items : ItemValue(items[k]) = itemValue}
  IN items[CHOOSE k \in at : \A j \in at : j <= k]

ItemValuesOf(value) == {ItemValue(ItemsOf(value)[k]) : k \in DOMAIN ItemsOf(value)}

\* The result of the accept merge for the header `name`: every item value of
\* either side once, the incoming side's item where it has the value, in
\* non-increasing quality, the items as written, joined by ", ".
QualityOrderedUnion(name) ==
  /\ HeadersGet(merged.result, name) # {}
  /\ LET b == BaseValue(name)
         r == IncomingValue(name)
         v == ResultValue(name)
         items == ItemsOf(v)
     IN /\ v = Join(items, <<",", " ">>)
        /\ \A i, j \in DOMAIN items : ItemValue(items[i]) = ItemValue(items[j]) => i = j
        /\ {items[k] : k \in DOMAIN items} =
             {ItemWith(r, x) : x \in ItemValuesOf(r)}
               \cup {ItemWith(b, x) : x \in ItemValuesOf(b) \ ItemValuesOf(r)}
        /\ \A i, j \in DOMAIN items :
             i < j => ItemQuality(items[i]) >= ItemQuality(items[j])

AcceptFamily == {n \in {toLowerCase(k) : k \in HeaderNames} : startsWith(n, <<"a", "c", "c", "e", "p", "t">>)}

\* C33: when both arguments define a header whose lower-cased name starts
\* with "accept", accept-charset included, the result is the quality-ordered
\* union of their items.
C33_AcceptPrefixMerges ==
  \A name \in AcceptFamily : MergedBoth(name) => QualityOrderedUnion(name)


\* ---- C34

\* The items of base followed by those of incoming, for the header `name`.
BothItems(name) == ItemsOf(BaseValue(name)) \o ItemsOf(IncomingValue(name))

\* The positions of the items that equal no earlier item, letter case aside.
FirstSeen(items) ==
  {k \in DOMAIN items :
     \A j \in 1..(k - 1) : toLowerCase(items[j]) # toLowerCase(items[k])}

\* The i-th smallest member of a set of positions.
Nth(positions, i) ==
  CHOOSE k \in positions : Cardinality({j \in positions : j <= k}) = i

Entries(headers) == {<<headers[i].key, headers[i].value>> : i \in DOMAIN headers}

\* The lower-cased names either argument of the call defines.
GivenNames ==
  UNION {{toLowerCase(h[i].key) : i \in DOMAIN h} :
           h \in {merged.baseHeaders, merged.requestHeaders}}

\* C35: when every name of the two arguments has the override or the merge
\* strategy, merging the incoming headers into the result once more gives
\* the result again.
C35_Idempotent ==
  (/\ merged.pc = "done"
   /\ \A name \in GivenNames : getStrategy(name) \in {"override", "merge"})
  => Entries(mergeHeaders(merged.result, merged.requestHeaders)) = Entries(merged.result)


\* ---- C36

\* The initialize calls that have returned.
InitializeDone == {c \in Calls : call[c].op = "initialize" /\ call[c].pc = "done"}

\* C36: the manager is initialized exactly when some initialize call has
\* resolved; an initialize call resolves only when none of the init handlers
\* it invoked failed and is rejected when one failed, critical or not; an
\* executeHook for a hook other than init issued while the manager is not
\* initialized is rejected without invoking a handler.
C36_InitializedIff ==
  /\ initialized <=> \E c \in InitializeDone : call[c].result = "resolved"
  /\ \A c \in InitializeDone :
       /\ call[c].result = "resolved" => call[c].failed = <<>>
       /\ call[c].failed # <<>> =>
            /\ call[c].result = "rejected"
            /\ call[c].failure = "initFailed"
  /\ \A c \in Calls :
       (/\ call[c].op = "executeHook"
        /\ call[c].hookName # "init"
        /\ ~call[c].initializedAtCall) =>
          /\ call[c].result = "rejected"
          /\ call[c].failure = "notInitialized"
          /\ call[c].started = <<>>

\* An initialize call was rejected because the init handler of the extension
\* that is not critical failed, and an executeHook("beforeRequest") found the
\* manager not initialized.
C36_Witness ==
  /\ ~initialized
  /\ \E c, d \in Calls :
       /\ c \in InitializeDone
       /\ call[c].failed = <<"A">>
       /\ call[c].result = "rejected"
       /\ call[d].op = "executeHook"
       /\ call[d].hookName = "beforeRequest"
       /\ call[d].failure = "notInitialized"


\* ---- C37

\* The number of invocations of the handler that the named extension declares
\* for the hook of activation c: those of the loop and, when the hook is
\* onError, those of the catch block, which calls the same handler.
HandlerInvocations(c, name) ==
  Cardinality({k \in DOMAIN call[c].started : call[c].started[k] = name})
  + (IF call[c].hookName = "onError"
     THEN Cardinality({k \in DOMAIN call[c].onErrorCalls :
                         call[c].onErrorCalls[k].name = name})
     ELSE 0)

\* C37 as stated: within one executeHook call the handler an extension
\* declares for the hook is invoked at most once, whatever the hook name.
C37_Original ==
  \A c \in Calls :
    \A i \in 1..Len(extensions) : HandlerInvocations(c, extensions[i].name) <= 1


\* C37: within one executeHook call the loop invokes the handler an extension
\* declares for the hook at most once; for a hook other than onError that is
\* its only invocation, and for onError the catch block invokes it at most
\* once more, only after the extension's invocation by the loop has failed.
C37_HandlerAtMostOnce ==
  \A c \in Calls :
    \A i \in 1..Len(extensions) :
      LET name == extensions[i].name
          byLoop == {k \in DOMAIN call[c].started : call[c].started[k] = name}
          byCatch == {k \in DOMAIN call[c].onErrorCalls :
                        call[c].onErrorCalls[k].name = name}
      IN /\ Cardinality(byLoop) <= 1
         /\ Cardinality(byCatch) <= 1
         /\ byCatch # {} => InLog(name, ErrorNames(call[c].errors))
         /\ call[c].hookName # "onError" => HandlerInvocations(c, name) <= 1

\* An executeHook("onError") call in which the onError handler of an
\* extension was invoked twice.
C37_Witness ==
  \E c \in Calls :
    /\ call[c].op = "executeHook"
    /\ call[c].hookName = "onError"
    /\ \E i \in 1..Len(extensions) : HandlerInvocations(c, extensions[i].name) = 2


\* ---- C38

\* The registry of the extend specification: A brings an initialState; the
\* name C is left for the extensions handed to extend.
ExtendRegistry ==
  << [name |-> "A", priority |-> {}, critical |-> FALSE, hooks |-> {"init"},
      initialState |-> {<<"n", 1>>}],
     [name |-> "B", priority |-> {}, critical |-> FALSE, hooks |-> {"init"}] >>

\* A constructed manager whose constructor has returned.
InitExtend ==
  /\ extensions = ExtendRegistry
  /\ initialized = FALSE
  /\ call = [c \in Calls |-> IdleCall]
  /\ aborted = [c \in Calls |-> FALSE]
  /\ heap = [i \in 1..Len(extensions) |-> InitialStateOf(extensions[i])]
  /\ state = [n \in {extensions[i].name : i \in 1..Len(extensions)} |->
                CHOOSE i \in 1..Len(extensions) : extensions[i].name = n]
  /\ sharedState = EmptyMap
  /\ written = EmptyMap
  /\ held = {}
  /\ lastOp = NoOp
  /\ reg = [IdleReg EXCEPT !.pc = "done"]
  /\ extended = NotExtended
  /\ getter = IdleGetter
  /\ NoClient

\* The manager is used (A's setState writing n = 2, setSharedState("x", 1),
\* initialize), and extend is called on it at any moment.
NextExtend ==
  \/ SetState(ContextOf("A"), [kind |-> "set", value |-> 2], "none")
  \/ ManagerSetSharedState("x", 1)
  \/ InitializeCall(1)
  \/ \E o \in {"returns", "throws"} : LoopStep(1, o, "returns")
  \/ ResumeHook(1, "returns")
  \/ InitReturn(1)
  \/ \E more \in RegLists(MaxMore) : Extend(more)

SpecExtend == InitExtend /\ [][NextExtend]_vars

\* C38: a call of extend changes neither the extensions, nor a private
\* state, nor the shared state, nor the initialized flag of the manager it is
\* called on; the manager it returns is not initialized, has an empty shared
\* state, and the private state of each of its extensions is that
\* extension's initialState ({} when it brings none).
C38_ExtendFresh ==
  [][(extended = NotExtended /\ extended' # NotExtended) =>
       /\ UNCHANGED <<extensions, heap, state, sharedState, initialized>>
       /\ extended'.status = "returned" =>
            /\ ~extended'.initialized
            /\ extended'.sharedState = EmptyMap
            /\ DOMAIN extended'.state =
                 {extended'.extensions[i].name : i \in 1..Len(extended'.extensions)}
            /\ \A i \in 1..Len(extended'.extensions) :
                 extended'.state[extended'.extensions[i].name] =
                   InitialStateOf(extended'.extensions[i])]_vars

\* extend returned a manager with one more extension when the original was
\* initialized, had a shared value and had changed the private state of A.
C38_Witness ==
  /\ extended # NotExtended
  /\ extended.status = "returned"
  /\ Len(extended.more) = 1
  /\ extended.original.initialized
  /\ extended.original.sharedState # EmptyMap
  /\ extended.original.state["A"] # InitialStateOf(ExtendRegistry[1])
  /\ extended.state["A"] = InitialStateOf(ExtendRegistry[1])


\* ---- C39

\* GET calls on the same client, one after another or at once, to an endpoint
\* or to one no URL can be built from, with the timeout of a call elapsing at
\* any moment after the call.
NextTimer ==
  \E c \in Calls :
    \/ \E cfg \in PlainConfigs({"/a", UnbuildableUrl}) : ClientCall(c, "GET", cfg)
    \/ TimeoutElapses(c)
    \/ \E o \in TransportResults : TransportSettles(c, o)
    \/ ErrorParsed(c)
    \/ \E o \in DecodeResults : DecodeSettles(c, o)

SpecTimer == InitClient /\ [][NextTimer]_vars

\* C39: the timer of a call that has settled is not armed.
C39_TimerDisarmed ==
  \A c \in Calls : req[c].pc = "done" => req[c].timer # "armed"

====
